---- MODULE Spec2Model ----
(***************************************************************************)
(* A model of pyaff4: the resolver's two-tier object cache                 *)
(* (pyaff4/data_store.py), the scoped acquisition of AFF4 objects          *)
(* (pyaff4/aff4.py) and the map stream's interval tree                     *)
(* (pyaff4/aff4_map.py).                                                   *)
(***************************************************************************)
EXTENDS Integers, Sequences, FiniteSets, TLC

\* The URNs of the objects of testLRU.
URNS == {"a", "b", "c", "d"}
\* The URNs of the objects the other callers handle.
KEYS == {"a", "b", "c"}
\* The capacity of the cache of testLRU.
TestCapacity == 3

\* Largest capacity the other caches are constructed with.
MaxItems == 2
\* Largest use_count the callers let an entry reach.
MaxUse == 2
\* Deepest nesting of with-blocks.
MaxScopes == 2
\* How many times object flushes may re-dirty another object during one
\* AFF4ObjectCache.Flush.
MaxRedirty == 1

VARIABLES
    max_items,            \* AFF4ObjectCache.max_items
    in_use,               \* AFF4ObjectCache.in_use: key -> entry.use_count
    lru_map,              \* AFF4ObjectCache.lru_map: its keys
    lru_list,             \* AFF4ObjectCache.lru_list: keys, lru_list.next first
    dirty,                \* AFF4Object._dirty of the object of each URN
    result,               \* outcome of the last call
    script,               \* progress through the calls of testLRU, -1 when left
    scopes,               \* the open with-blocks, innermost last
    exc,                  \* an exception is propagating
    flush_pc,             \* position of a running AFF4ObjectCache.Flush
    it,                   \* Flush: index in lru_list of the entry visited next
    dirty_objects_found,  \* Flush: dirty_objects_found
    redirtied,            \* Flush: re-dirtyings so far
    tree,                 \* AFF4Map.tree: the Range of each interval
    targets,              \* AFF4Map.targets
    target_idx_map,       \* AFF4Map.target_idx_map
    map_result,           \* outcome of the last AFF4Map call
    last_target,          \* AFF4Map.last_target
    readptr,              \* AFF4Map.readptr
    map_dirty,            \* AFF4Map._dirty
    loaded,               \* how many of the targets LoadFromURN read (plain
                          \* strings, the others are URN objects)
    streams,              \* the bytes of each target stream that exists
    read_result,          \* the bytes the last call returned, if a Read
    map_segment,          \* payload of the stored <map>/map member
    idx_segment,          \* payload of the stored <map>/idx member
    image,                \* the fields of the AFF4Image object
    image_pc,             \* "new": the image NewAFF4Image made; "reopened":
                          \* the one a fresh resolver opened
    volume,               \* the bevy and index members and the metadata of
                          \* the image in its volume
    image_result,         \* what the last AFF4Image call returned
    written,              \* every byte given to the image so far, by
                          \* Write or by WriteStream
    \* FileBackedObject (aff4_file.py)
    disk,                 \* the file of the stream on the file system:
                          \* whether it exists, and its bytes
    write_mode,           \* AFF4_STREAM_WRITE_MODE of the URN in the resolver
    file_stream,          \* the FileBackedObject of the URN in the object
                          \* cache: the flags and position of its fd, its
                          \* readptr and _dirty; open is FALSE when the
                          \* cache holds no object for the URN
    file_result,          \* what the last call on the stream returned
    stream_test,          \* 0, or the step of StreamTest.streamTest that
                          \* comes next
    truncated,            \* how many times an open has truncated the file
    \* ZipFile and ZipFileSegment (zip.py); the backing file of the volume is
    \* the file stream above
    zip,                  \* the ZipFile: members, children and _dirty
    segments,             \* the ZipFileSegment of each member name in the
                          \* object cache: the bytes of its fd, its readptr,
                          \* _dirty and compression_method
    member_data,             \* every byte written to the member of ZipTest, in
                          \* write order
    zip_pc,               \* "new" or "test" while the resolver that made
                          \* the volume is open, "closed" after it, then
                          \* "reopened" in a fresh resolver
    zip_result,           \* what the Read of the member returned there
    \* MemoryDataStore (data_store.py)
    store,                \* self.store: the slot under each subject and
                          \* attribute that holds one
    inserted,             \* under each subject and attribute, the values
                          \* given to Set and Add since the last Set, in the
                          \* order of the calls
    store_result,         \* what the last call on the store was and,
                          \* for a Get, the serialized subject, the
                          \* attribute and what it returned
    ObjectCache,          \* the objects the resolver holds in its
                          \* ObjectCache: URN -> the class of the object
    \* ZipFile.StreamAddMember and the progress reports (aff4.py)
    aff4_abort_signaled,  \* aff4.aff4_abort_signaled
    copy                  \* the StreamAddMember that is running, if any: its
                          \* position, its progress context, its
                          \* compression method, what the source stream
                          \* has yet to return, zip_info.file_size, what
                          \* was written to the backing store and whether
                          \* the member is in self.members

cacheVars == <<max_items, in_use, lru_map, lru_list, dirty, result>>
flushVars == <<flush_pc, it, dirty_objects_found, redirtied>>
scopeVars == <<scopes, exc>>
rangeVars == <<tree, targets, target_idx_map, map_result, last_target,
               map_dirty>>
ioVars == <<readptr, streams, read_result>>
storeVars == <<loaded, map_segment, idx_segment>>
mapVars == <<rangeVars, ioVars, storeVars>>
imageVars == <<image, image_pc, volume, image_result, written>>
fileVars == <<disk, write_mode, file_stream, file_result, stream_test,
              truncated>>
zipVars == <<zip, segments, member_data, zip_pc, zip_result>>
resolverVars == <<store, inserted, store_result, ObjectCache>>
copyVars == <<aff4_abort_signaled, copy>>
storageVars == <<fileVars, zipVars, resolverVars, copyVars>>
vars == <<cacheVars, script, scopeVars, flushVars, mapVars, imageVars,
          storageVars>>

----------------------------------------------------------------------------
(* Python dict and linked-list primitives *)

\* dict.pop(key)
DictPop(d, k) == [x \in (DOMAIN d) \ {k} |-> d[x]]

\* d[key] = value
DictSet(d, k, v) == [x \in (DOMAIN d) \cup {k} |-> IF x = k THEN v ELSE d[x]]

\* AFF4ObjectCacheEntry.unlink: the entry leaves the list it is in.
unlink(list, k) == SelectSeq(list, LAMBDA x : x # k)

\* append that links the entry at the tail, before lru_list.prev.
append_AtTail(list, k) == list \o <<k>>

\* AFF4ObjectCacheEntry.append on the list head: the entry becomes
\* lru_list.next.
append(list, k) == <<k>> \o list

\* AFF4Object.Flush
ObjFlush(d, k) == [d EXCEPT ![k] = FALSE]

\* _Trim that drops the trimmed objects without flushing them.
RECURSIVE _Trim_NoFlush(_, _)
_Trim_NoFlush(st, cap) ==
    IF Cardinality(st.map) > cap
    THEN LET older_item == st.list[Len(st.list)]
         IN _Trim_NoFlush([map   |-> st.map \ {older_item},
                           list  |-> unlink(st.list, older_item),
                           dirty |-> st.dirty], cap)
    ELSE st

\* AFF4ObjectCache._Trim on the state st = [map, list, dirty].
RECURSIVE _Trim(_, _)
_Trim(st, cap) ==
    IF Cardinality(st.map) > cap
    THEN LET older_item == st.list[Len(st.list)]
         IN _Trim([map   |-> st.map \ {older_item},
                   list  |-> unlink(st.list, older_item),
                   dirty |-> ObjFlush(st.dirty, older_item)], cap)
    ELSE st

----------------------------------------------------------------------------
(* The calls of testLRU, in order *)

testLRU == << <<"Put", "a">>, <<"Put", "b">>, <<"Put", "c">>,
              <<"Get", "a">>, <<"Return", "a">>, <<"Put", "d">> >>

\* The script advances when the call is the next one of testLRU.
ScriptStep(call) ==
    script' = IF script >= 0 /\ script < Len(testLRU)
                 /\ testLRU[script + 1] = call
              THEN script + 1 ELSE -1

Idle == flush_pc = "idle" /\ ~exc

\* The messages of the RuntimeError that CHECK raises.
PutInUse == "Put in cache while already in use"
PutInCache == "Put in cache while already in cache"
ReturnNotInUse == "Returned to cache, but it is not in use"
ReturnNotUsed == "Returned object is not used"
RemoveNeverThere == "removed from cache, but was never there"
FlushInUse == "ObjectCache flushed while some objects in use"

Errors == {PutInUse, PutInCache, ReturnNotInUse, ReturnNotUsed,
           RemoveNeverThere, FlushInUse}

----------------------------------------------------------------------------
(* AFF4ObjectCache *)

\* Put without the two CHECKs: the new entry replaces the cached one.
PutEffect_NoCheck(key, in_use_state, d) ==
    IF in_use_state
    THEN /\ in_use' = DictSet(in_use, key, 1)
         /\ dirty' = [dirty EXCEPT ![key] = d]
         /\ result' = "put"
         /\ UNCHANGED <<lru_map, lru_list>>
    ELSE LET st == _Trim([map   |-> lru_map \cup {key},
                          list  |-> append(unlink(lru_list, key), key),
                          dirty |-> [dirty EXCEPT ![key] = d]], max_items)
         IN /\ lru_map' = st.map
            /\ lru_list' = st.list
            /\ dirty' = st.dirty
            /\ result' = "put"
            /\ UNCHANGED in_use

\* The effect of Put(aff4_obj, in_use_state) on the cache; d is the dirty
\* flag of the object put.
PutEffect(key, in_use_state, d) ==
    IF key \in DOMAIN in_use
    THEN /\ result' = PutInUse
         /\ UNCHANGED <<in_use, lru_map, lru_list, dirty>>
    ELSE IF key \in lru_map
    THEN /\ result' = PutInCache
         /\ UNCHANGED <<in_use, lru_map, lru_list, dirty>>
    ELSE IF in_use_state
    THEN /\ in_use' = DictSet(in_use, key, 1)
         /\ dirty' = [dirty EXCEPT ![key] = d]
         /\ result' = "put"
         /\ UNCHANGED <<lru_map, lru_list>>
    ELSE LET st == _Trim([map   |-> lru_map \cup {key},
                          list  |-> append(lru_list, key),
                          dirty |-> [dirty EXCEPT ![key] = d]], max_items)
         IN /\ lru_map' = st.map
            /\ lru_list' = st.list
            /\ dirty' = st.dirty
            /\ result' = "put"
            /\ UNCHANGED in_use

\* Get that leaves the entry in lru_map when it moves it to in_use.
GetEffect_KeepInLru(key) ==
    IF key \in DOMAIN in_use
    THEN /\ in_use' = [in_use EXCEPT ![key] = @ + 1]
         /\ result' = "obj"
         /\ UNCHANGED <<lru_map, lru_list, dirty>>
    ELSE IF key \in lru_map
    THEN /\ lru_list' = unlink(lru_list, key)
         /\ in_use' = DictSet(in_use, key, 1)
         /\ result' = "obj"
         /\ UNCHANGED <<lru_map, dirty>>
    ELSE /\ result' = "null"
         /\ UNCHANGED <<in_use, lru_map, lru_list, dirty>>

\* Get that does not count a second user of an entry in use.
GetEffect_NoIncrement(key) ==
    IF key \in DOMAIN in_use
    THEN /\ result' = "obj"
         /\ UNCHANGED <<in_use, lru_map, lru_list, dirty>>
    ELSE IF key \in lru_map
    THEN /\ lru_map' = lru_map \ {key}
         /\ lru_list' = unlink(lru_list, key)
         /\ in_use' = DictSet(in_use, key, 1)
         /\ result' = "obj"
         /\ UNCHANGED dirty
    ELSE /\ result' = "null"
         /\ UNCHANGED <<in_use, lru_map, lru_list, dirty>>

\* The effect of Get(urn) on the cache.
GetEffect(key) ==
    IF key \in DOMAIN in_use
    THEN /\ in_use' = [in_use EXCEPT ![key] = @ + 1]
         /\ result' = "obj"
         /\ UNCHANGED <<lru_map, lru_list, dirty>>
    ELSE IF key \in lru_map
    THEN /\ lru_map' = lru_map \ {key}
         /\ lru_list' = unlink(lru_list, key)
         /\ in_use' = DictSet(in_use, key, 1)
         /\ result' = "obj"
         /\ UNCHANGED dirty
    ELSE /\ result' = "null"
         /\ UNCHANGED <<in_use, lru_map, lru_list, dirty>>

\* Return that moves the entry to the LRU on every call, whatever its
\* use_count.
ReturnEffect_AlwaysMove(key) ==
    IF key \notin DOMAIN in_use
    THEN /\ result' = ReturnNotInUse
         /\ UNCHANGED <<in_use, lru_map, lru_list, dirty>>
    ELSE IF ~(in_use[key] > 0)
    THEN /\ result' = ReturnNotUsed
         /\ UNCHANGED <<in_use, lru_map, lru_list, dirty>>
    ELSE LET st == _Trim([map   |-> lru_map \cup {key},
                          list  |-> append(lru_list, key),
                          dirty |-> dirty], max_items)
         IN /\ in_use' = DictPop(in_use, key)
            /\ lru_map' = st.map
            /\ lru_list' = st.list
            /\ dirty' = st.dirty
            /\ result' = "returned"

\* The effect of Return(aff4_obj) on the cache.
ReturnEffect(key) ==
    IF key \notin DOMAIN in_use
    THEN /\ result' = ReturnNotInUse
         /\ UNCHANGED <<in_use, lru_map, lru_list, dirty>>
    ELSE IF ~(in_use[key] > 0)
    THEN /\ result' = ReturnNotUsed
         /\ UNCHANGED <<in_use, lru_map, lru_list, dirty>>
    ELSE IF in_use[key] - 1 = 0
    THEN LET st == _Trim([map   |-> lru_map \cup {key},
                          list  |-> append(lru_list, key),
                          dirty |-> dirty], max_items)
         IN /\ in_use' = DictPop(in_use, key)
            /\ lru_map' = st.map
            /\ lru_list' = st.list
            /\ dirty' = st.dirty
            /\ result' = "returned"
    ELSE /\ in_use' = [in_use EXCEPT ![key] = @ - 1]
         /\ result' = "returned"
         /\ UNCHANGED <<lru_map, lru_list, dirty>>

\* The effect of Remove(aff4_obj) on the cache.
RemoveEffect(key) ==
    IF key \in lru_map
    THEN /\ lru_map' = lru_map \ {key}
         /\ lru_list' = unlink(lru_list, key)
         /\ dirty' = ObjFlush(dirty, key)
         /\ result' = "removed"
         /\ UNCHANGED in_use
    ELSE IF key \in DOMAIN in_use
    THEN /\ in_use' = DictPop(in_use, key)
         /\ dirty' = ObjFlush(dirty, key)
         /\ result' = "removed"
         /\ UNCHANGED <<lru_map, lru_list>>
    ELSE /\ result' = RemoveNeverThere
         /\ UNCHANGED <<in_use, lru_map, lru_list, dirty>>

Put(key, in_use_state, d) ==
    /\ Idle
    /\ PutEffect(key, in_use_state, d)
    /\ ScriptStep(IF in_use_state \/ d THEN <<"Other">> ELSE <<"Put", key>>)
    /\ UNCHANGED <<max_items, scopeVars, flushVars>>
    /\ UNCHANGED <<mapVars, imageVars, storageVars>>

Get(key) ==
    /\ Idle
    /\ key \in DOMAIN in_use => in_use[key] < MaxUse
    /\ GetEffect(key)
    /\ ScriptStep(<<"Get", key>>)
    /\ UNCHANGED <<max_items, scopeVars, flushVars>>
    /\ UNCHANGED <<mapVars, imageVars, storageVars>>

Return(key) ==
    /\ Idle
    /\ ReturnEffect(key)
    /\ ScriptStep(<<"Return", key>>)
    /\ UNCHANGED <<max_items, scopeVars, flushVars>>
    /\ UNCHANGED <<mapVars, imageVars, storageVars>>

Remove(key) ==
    /\ Idle
    /\ RemoveEffect(key)
    /\ ScriptStep(<<"Other">>)
    /\ UNCHANGED <<max_items, scopeVars, flushVars>>
    /\ UNCHANGED <<mapVars, imageVars, storageVars>>

\* AFF4Object.MarkDirty on a cached object.
MarkDirty(key) ==
    /\ Idle
    /\ key \in DOMAIN in_use \/ key \in lru_map
    /\ ~dirty[key]
    /\ dirty' = [dirty EXCEPT ![key] = TRUE]
    /\ ScriptStep(<<"Other">>)
    /\ UNCHANGED <<max_items, in_use, lru_map, lru_list, result,
                   scopeVars, flushVars>>
    /\ UNCHANGED <<mapVars, imageVars, storageVars>>

----------------------------------------------------------------------------
(* AFF4ObjectCache.Flush, one step per loop iteration *)

\* Flush without the in_use check.
FlushBegin_NoCheck ==
    /\ Idle
    /\ flush_pc' = "walk"
    /\ it' = 1
    /\ dirty_objects_found' = FALSE
    /\ redirtied' = 0
    /\ result' = "running"
    /\ ScriptStep(<<"Other">>)
    /\ UNCHANGED <<max_items, in_use, lru_map, lru_list, dirty, scopeVars>>
    /\ UNCHANGED <<mapVars, imageVars, storageVars>>

\* Entry of Flush: the in_use check, then the first pass begins.
FlushBegin ==
    /\ Idle
    /\ IF Cardinality(DOMAIN in_use) # 0
       THEN /\ result' = FlushInUse
            /\ UNCHANGED flushVars
       ELSE /\ flush_pc' = "walk"
            /\ it' = 1
            /\ dirty_objects_found' = FALSE
            /\ redirtied' = 0
            /\ result' = "running"
    /\ ScriptStep(<<"Other">>)
    /\ UNCHANGED <<max_items, in_use, lru_map, lru_list, dirty, scopeVars>>
    /\ UNCHANGED <<mapVars, imageVars, storageVars>>

\* The flush of the object of key, which may mark other cached objects
\* dirty (a segment's flush marks its volume dirty): the set r.
FlushRedirty(key, r) ==
    [x \in URNS |-> IF x \in r THEN TRUE ELSE ObjFlush(dirty, key)[x]]

\* One iteration of "for it in self.lru_list".
FlushVisit ==
    /\ flush_pc = "walk"
    /\ it <= Len(lru_list)
    /\ LET key == lru_list[it]
       IN IF dirty[key]
          THEN \E r \in SUBSET (lru_map \ {key}) :
                  /\ redirtied + Cardinality(r) <= MaxRedirty
                  /\ Cardinality(r) <= 1
                  /\ dirty' = FlushRedirty(key, r)
                  /\ redirtied' = redirtied + Cardinality(r)
                  /\ dirty_objects_found' = TRUE
          ELSE UNCHANGED <<dirty, dirty_objects_found, redirtied>>
    /\ it' = it + 1
    /\ UNCHANGED <<max_items, in_use, lru_map, lru_list, result, script,
                   scopeVars, flush_pc>>
    /\ UNCHANGED <<mapVars, imageVars, storageVars>>

\* Flush that deletes the entries after its first pass.
FlushPassEnd_OnePass ==
    /\ flush_pc = "walk"
    /\ it > Len(lru_list)
    /\ lru_list' = <<>>
    /\ lru_map' = {}
    /\ result' = "flushed"
    /\ flush_pc' = "idle"
    /\ it' = 0
    /\ UNCHANGED <<dirty_objects_found, redirtied>>
    /\ UNCHANGED <<max_items, in_use, dirty, script, scopeVars>>
    /\ UNCHANGED <<mapVars, imageVars, storageVars>>

\* The end of a pass: another pass, or the entries are deleted.
FlushPassEnd ==
    /\ flush_pc = "walk"
    /\ it > Len(lru_list)
    /\ IF dirty_objects_found
       THEN /\ it' = 1
            /\ dirty_objects_found' = FALSE
            /\ UNCHANGED <<lru_map, lru_list, result, flush_pc, redirtied>>
       ELSE /\ lru_list' = <<>>
            /\ lru_map' = {}
            /\ result' = "flushed"
            /\ flush_pc' = "idle"
            /\ it' = 0
            /\ UNCHANGED <<dirty_objects_found, redirtied>>
    /\ UNCHANGED <<max_items, in_use, dirty, script, scopeVars>>
    /\ UNCHANGED <<mapVars, imageVars, storageVars>>

----------------------------------------------------------------------------
(* MemoryDataStore.AFF4FactoryOpen and the with-blocks of AFF4Object *)

\* The effect of AFF4FactoryOpen(urn) on the cache; handler tells whether a
\* handler is registered for the URN.
AFF4FactoryOpenEffect(key, handler) ==
    IF key \in DOMAIN in_use \/ key \in lru_map
    THEN GetEffect(key)
    ELSE IF ~handler
    THEN /\ result' = "ioerror"
         /\ UNCHANGED <<in_use, lru_map, lru_list, dirty>>
    ELSE PutEffect(key, TRUE, FALSE)

\* "with resolver.AFF4FactoryOpen(urn) as obj:" is entered.
AFF4FactoryOpen(key, handler) ==
    /\ Idle
    /\ Len(scopes) < MaxScopes
    /\ key \in DOMAIN in_use => in_use[key] < MaxUse
    /\ AFF4FactoryOpenEffect(key, handler)
    /\ scopes' = IF result' = "ioerror" THEN scopes ELSE Append(scopes, key)
    /\ ScriptStep(<<"Other">>)
    /\ UNCHANGED <<max_items, exc, flushVars>>
    /\ UNCHANGED <<mapVars, imageVars, storageVars>>

\* __exit__ that returns the object only when the block ends normally.
__exit___NormalOnly(exc_type) ==
    /\ flush_pc = "idle"
    /\ scopes # << >>
    /\ exc_type = exc
    /\ IF exc_type
       THEN UNCHANGED <<in_use, lru_map, lru_list, dirty, result>>
       ELSE ReturnEffect(scopes[Len(scopes)])
    /\ scopes' = SubSeq(scopes, 1, Len(scopes) - 1)
    /\ exc' = (exc \/ result' \in Errors)
    /\ ScriptStep(<<"Other">>)
    /\ UNCHANGED <<max_items, flushVars>>
    /\ UNCHANGED <<mapVars, imageVars, storageVars>>

\* AFF4Object.__exit__(exc_type, ...) of the innermost block; exc_type is
\* the exception the block is left by, if any. An error of Return
\* propagates.
__exit__(exc_type) ==
    /\ flush_pc = "idle"
    /\ scopes # << >>
    /\ exc_type = exc
    /\ ReturnEffect(scopes[Len(scopes)])
    /\ scopes' = SubSeq(scopes, 1, Len(scopes) - 1)
    /\ exc' = (exc \/ result' \in Errors)
    /\ ScriptStep(<<"Other">>)
    /\ UNCHANGED <<max_items, flushVars>>
    /\ UNCHANGED <<mapVars, imageVars, storageVars>>

\* The body of a with-block raises.
Raise ==
    /\ Idle
    /\ scopes # << >>
    /\ exc' = TRUE
    /\ UNCHANGED <<cacheVars, script, scopes, flushVars>>
    /\ UNCHANGED <<mapVars, imageVars, storageVars>>

\* An except clause catches the propagating exception.
Catch ==
    /\ exc
    /\ exc' = FALSE
    /\ UNCHANGED <<cacheVars, script, scopes, flushVars>>
    /\ UNCHANGED <<mapVars, imageVars, storageVars>>

----------------------------------------------------------------------------
(* aff4_map.Range *)

\* Largest map_offset and target_offset of an AddRange call.
MaxOffset == 2
\* Largest length of an AddRange call.
MaxLength == 2
\* Most intervals a tree holds when AddRange is called.
MaxIntervals == 2
\* The targets the callers map onto.
TARGETS == {"A", "B"}

Min(x, y) == IF x <= y THEN x ELSE y
Max(x, y) == IF x >= y THEN x ELSE y

Range(map_offset, target_offset, length, target_id) ==
    [map_offset |-> map_offset, target_offset |-> target_offset,
     length |-> length, target_id |-> target_id]

\* No target (Python's None as last_target).
NoTarget == "None"

\* No interval (Python's None, or the empty result of a tree lookup).
None == Range(-1, -1, -1, -1)

map_end(r) == r.map_offset + r.length

target_offset_at_map_offset(r, offset) ==
    r.target_offset + offset - r.map_offset

\* Range.Merge does not raise ValueError.
Mergeable(self, other) ==
    ~(other.target_id # self.target_id
      \/ target_offset_at_map_offset(self, self.map_offset)
           # target_offset_at_map_offset(other, self.map_offset))

\* A Merge that keeps the target offset of self.
Merge_KeepTargetOffset(self, other) ==
    LET start == Min(self.map_offset, other.map_offset)
        end   == Max(map_end(self), map_end(other))
    IN [self EXCEPT !.map_offset = start,
                    !.length = end - start]

\* Range.Merge when it does not raise.
Merge(self, other) ==
    LET start == Min(self.map_offset, other.map_offset)
        end   == Max(map_end(self), map_end(other))
    IN [self EXCEPT !.map_offset = start,
                    !.length = end - start,
                    !.target_offset = target_offset_at_map_offset(self, start)]

\* left_clip and right_clip do not raise ValueError.
ClipInside(r, offset) == r.map_offset <= offset /\ offset <= map_end(r)

left_clip(r, offset) ==
    LET adjustment == offset - r.map_offset
    IN [r EXCEPT !.map_offset = r.map_offset + adjustment,
                 !.target_offset = r.target_offset + adjustment,
                 !.length = r.length - adjustment]

right_clip(r, offset) ==
    LET adjustment == map_end(r) - offset
    IN [r EXCEPT !.length = r.length - adjustment]

----------------------------------------------------------------------------
(* The intervaltree calls of AFF4Map: an interval is (map_offset, map_end,  *)
(* range), so the tree is the set of its ranges.                            *)

\* tree[point]: the intervals that contain the point.
TreeAt(t, point) ==
    {iv \in t : iv.map_offset <= point /\ point < map_end(iv)}

\* What "x = tree[point]; if x: x = x.pop()" may leave in x.
PopAt(t, point) == IF TreeAt(t, point) = {} THEN {None} ELSE TreeAt(t, point)

\* tree.addi raises ValueError on an interval with begin >= end.
AddiRaises(t, r) == r \notin t /\ r.map_offset >= map_end(r)

\* tree.addi(range.map_offset, range.map_end, range)
addi(t, r) == t \cup {r}

\* tree.remove(interval)
remove(t, r) == t \ {r}

\* remove_envelop that spares an interval starting at begin.
remove_envelop_Inner(t, begin, end) ==
    t \ {iv \in t : begin < end /\ iv.map_offset > begin /\ map_end(iv) <= end}

\* tree.remove_envelop(begin, end)
remove_envelop(t, begin, end) ==
    t \ {iv \in t : begin < end /\ iv.map_offset >= begin /\ map_end(iv) <= end}

----------------------------------------------------------------------------
(* AFF4Map.AddRange *)

\* The left half of AddRange: [tree, range, left_interval, raised] after
\* "Try to merge with the left interval", li being the interval popped.
AddRangeLeft(t, range, li) ==
    IF li = None
    THEN [tree |-> t, range |-> range, left_interval |-> None, raised |-> FALSE]
    ELSE IF Mergeable(range, li)
    THEN [tree |-> t, range |-> Merge(range, li), left_interval |-> li,
          raised |-> FALSE]
    ELSE IF ~ClipInside(li, range.map_offset)
    THEN [tree |-> t, range |-> range, left_interval |-> li, raised |-> TRUE]
    ELSE LET left_range == right_clip(li, range.map_offset)
         IN IF left_range = li
            THEN [tree |-> t, range |-> range, left_interval |-> None,
                  raised |-> FALSE]
            ELSE IF AddiRaises(t, left_range)
            THEN [tree |-> t, range |-> range, left_interval |-> li,
                  raised |-> TRUE]
            ELSE [tree |-> addi(t, left_range), range |-> range,
                  left_interval |-> li, raised |-> FALSE]

\* The right half: [tree, range, right_interval, raised] after "Try to merge
\* with the right interval", ri being the interval popped.
AddRangeRight(t, range, ri) ==
    IF ri = None
    THEN [tree |-> t, range |-> range, right_interval |-> None, raised |-> FALSE]
    ELSE IF Mergeable(range, ri)
    THEN [tree |-> t, range |-> Merge(range, ri), right_interval |-> ri,
          raised |-> FALSE]
    ELSE IF ~ClipInside(ri, map_end(range))
    THEN [tree |-> t, range |-> range, right_interval |-> ri, raised |-> TRUE]
    ELSE LET right_range == left_clip(ri, map_end(range))
         IN IF right_range = ri
            THEN [tree |-> t, range |-> range, right_interval |-> None,
                  raised |-> FALSE]
            ELSE IF AddiRaises(t, right_range)
            THEN [tree |-> t, range |-> range, right_interval |-> ri,
                  raised |-> TRUE]
            ELSE [tree |-> addi(t, right_range), range |-> range,
                  right_interval |-> ri, raised |-> FALSE]

\* The end of AddRange: the two intervals and the enveloped ones are removed
\* and the new interval is added.
AddRangeTail(t, range, left_interval, right_interval) ==
    LET t1 == IF left_interval # None THEN remove(t, left_interval) ELSE t
        t2 == IF right_interval # None /\ right_interval # left_interval
              THEN remove(t1, right_interval) ELSE t1
        t3 == remove_envelop(t2, range.map_offset, map_end(range))
    IN IF AddiRaises(t3, range)
       THEN [tree |-> t3, raised |-> TRUE]
       ELSE [tree |-> addi(t3, range), raised |-> FALSE]

\* The trees AddRange may leave, each with whether the call raised.
AddRangeResults(t, range) ==
    UNION {
      LET L == AddRangeLeft(t, range, li)
      IN IF L.raised
         THEN {[tree |-> L.tree, raised |-> TRUE]}
         ELSE UNION {
                LET R == AddRangeRight(L.tree, L.range, ri)
                IN IF R.raised
                   THEN {[tree |-> R.tree, raised |-> TRUE]}
                   ELSE {AddRangeTail(R.tree, R.range, L.left_interval,
                                      R.right_interval)}
                : ri \in PopAt(L.tree, map_end(L.range) + 1) }
      : li \in PopAt(t, range.map_offset - 1) }

\* The position of target in the list of targets after the lookup.
TargetId(target) ==
    IF target \in DOMAIN target_idx_map THEN target_idx_map[target]
    ELSE Len(targets)

\* What AddRange does to the targets and the tree.
AddRangeEffect(map_offset, target_offset, length, target) ==
    /\ last_target' = target
    /\ targets' = IF target \in DOMAIN target_idx_map THEN targets
                  ELSE Append(targets, target)
    /\ target_idx_map' = IF target \in DOMAIN target_idx_map
                         THEN target_idx_map
                         ELSE DictSet(target_idx_map, target, Len(targets))
    /\ \E res \in AddRangeResults(
                     tree, Range(map_offset, target_offset, length,
                                 TargetId(target))) :
          /\ tree' = res.tree
          /\ map_result' = IF res.raised THEN "error" ELSE "ok"

\* AddRange marks the map dirty at its end.
AddRange(map_offset, target_offset, length, target) ==
    /\ AddRangeEffect(map_offset, target_offset, length, target)
    /\ map_dirty' = IF map_result' = "ok" THEN TRUE ELSE map_dirty
    /\ read_result' = << >>
    /\ UNCHANGED <<cacheVars, script, scopeVars, flushVars, imageVars,
                    storageVars>>
    /\ UNCHANGED <<readptr, streams, storeVars>>

\* The arguments of the AddRange calls of testAddRange.
testAddRange ==
    { <<0, 0, 100, "a">>, <<10, 10, 100, "a">>, <<50, 0, 100, "a">>,
      <<50, 0, 10, "b">>, <<0, 0, 100, "b">>,
      <<0, 100, 10, "a">>, <<10, 110, 10, "a">>, <<20, 120, 10, "a">>,
      <<30, 130, 10, "a">>, <<10, 110, 20, "a">> }

\* AFF4Map.Clear
Clear ==
    /\ targets' = << >>
    /\ target_idx_map' = << >>
    /\ tree' = {}
    /\ map_result' = "ok"
    /\ loaded' = 0
    /\ read_result' = << >>
    /\ UNCHANGED <<last_target, map_dirty, readptr, streams, map_segment,
                   idx_segment>>
    /\ UNCHANGED <<cacheVars, script, scopeVars, flushVars, imageVars,
                    storageVars>>

----------------------------------------------------------------------------
(* Reading and writing through the map *)

\* Largest offset of a Seek.
MaxSeek == 2
\* Largest length of a Read.
MaxRead == 3
\* Most bytes a target stream holds.
MaxStream == 3

\* The zero byte "\x00".
NUL == "NUL"

\* "\x00" * n
Zeros(n) == [i \in 1..n |-> NUL]

\* The strings the callers write.
DATA == {<< >>, <<"x">>, <<"y", "z">>}

\* URN of the default backing stream, self.urn.Append("data").
DataURN == "data"

\* URN of a target that AFF4FactoryOpen cannot open.
Unreachable == "unreachable"

\* The strings setUp of the map test writes at offsets 50, 0 and 50.
XX_position ==
    <<"X", "X", " ", "-", " ", "T", "h", "i", "s", " ", "i", "s", " ",
    "t", "h", "e", " ", "p", "o", "s", "i", "t", "i", "o", "n", ".">>

OO_position ==
    <<"0", "0", " ", "-", " ", "T", "h", "i", "s", " ", "i", "s", " ",
    "t", "h", "e", " ", "p", "o", "s", "i", "t", "i", "o", "n", ".">>

Fifty ==
    <<"5", "0">>

\* The bytes of the memory stream setUp fills, as far as a stream goes.
Letters == <<"A", "B", "C", "D", "E", "F", "G", "H">>
SourceData == SubSeq(Letters, 1, MaxStream)

\* URN of that memory stream.
SourceURN == "source"

\* The offsets in it the callers map ranges onto, and their lengths.
SourceOffsets == {0, 1}
SourceLengths == {1, 2}

\* tree[begin:end]: the intervals that overlap [begin, end).
TreeOverlap(t, begin, end) ==
    IF begin >= end THEN {}
    ELSE {iv \in t : iv.map_offset < end /\ map_end(iv) > begin}

\* The order of sorted() on intervals: begin, then end, then the Range.
IntervalLess(a, b) ==
    LET ka == <<a.map_offset, map_end(a), a.target_offset, a.target_id>>
        kb == <<b.map_offset, map_end(b), b.target_offset, b.target_id>>
    IN \E i \in 1..4 : ka[i] < kb[i] /\ \A j \in 1..(i - 1) : ka[j] = kb[j]

\* The first interval of sorted(ivs).
First(ivs) == CHOOSE a \in ivs : \A b \in ivs \ {a} : IntervalLess(a, b)

\* A target Read that ignores the Seek before it.
StreamRead_FromStart(content, offset, n) ==
    IF n <= 0 THEN << >> ELSE SubSeq(content, 1, Min(n, Len(content)))

\* target_stream.Seek(offset); target_stream.Read(n) on a stream holding
\* content: Seek clamps at 0, Read stops at the end of the stream.
StreamRead(content, offset, n) ==
    LET start == Max(offset, 0)
    IN IF n <= 0 THEN << >>
       ELSE SubSeq(content, start + 1, Min(start + n, Len(content)))

\* A target read that adds nothing when the target cannot be opened.
TargetRead_NoPadding(target, offset, n, strs) ==
    IF target \in DOMAIN strs THEN StreamRead(strs[target], offset, n)
    ELSE << >>

\* The try block of AFF4Map.Read: the bytes of the target, or zeros when
\* AFF4FactoryOpen raises IOError.
TargetRead(target, offset, n, strs) ==
    IF target \in DOMAIN strs THEN StreamRead(strs[target], offset, n)
    ELSE Zeros(n)

\* The loop of AFF4Map.Read over the sorted intervals ivs; st holds result,
\* readptr and length.
RECURSIVE ReadIntervals(_, _, _, _)
ReadIntervals(ivs, st, tgts, strs) ==
    IF ivs = {} THEN st
    ELSE
      LET range == First(ivs)
          padding == IF range.map_offset > st.readptr
                     THEN Min(st.length, range.map_offset - st.readptr)
                     ELSE 0
          p == [result |-> st.result \o Zeros(padding),
                readptr |-> st.readptr + padding,
                length |-> st.length - padding]
      IN IF p.length = 0 THEN p
         ELSE
           LET target == tgts[range.target_id + 1]
               length_to_read_in_target ==
                   Min(p.length, map_end(range) - p.readptr)
               data == TargetRead(
                         target,
                         target_offset_at_map_offset(range, p.readptr),
                         length_to_read_in_target, strs)
           IN ReadIntervals(
                ivs \ {range},
                [result |-> p.result \o data,
                 readptr |-> p.readptr + length_to_read_in_target,
                 length |-> p.length - length_to_read_in_target],
                tgts, strs)

\* What AFF4Map.Read(length) returns and where it leaves the read pointer,
\* in a resolver that holds the streams strs.
ReadEffectOn(length, strs) ==
    LET st == ReadIntervals(TreeOverlap(tree, readptr, readptr + length),
                            [result |-> << >>, readptr |-> readptr,
                             length |-> length],
                            targets, strs)
    IN [result |-> IF st.result # << >> THEN st.result ELSE Zeros(st.length),
        readptr |-> st.readptr]

ReadEffect(length) == ReadEffectOn(length, streams)

\* AFF4Map.Read
Read(length) ==
    /\ read_result' = ReadEffect(length).result
    /\ readptr' = ReadEffect(length).readptr
    /\ map_result' = "read"
    /\ UNCHANGED <<tree, targets, target_idx_map, last_target, map_dirty,
                   streams, storeVars>>
    /\ UNCHANGED <<cacheVars, script, scopeVars, flushVars, imageVars,
                    storageVars>>

\* AFF4Stream.Seek(offset) with whence 0.
Seek(offset) ==
    /\ readptr' = IF offset < 0 THEN 0 ELSE offset
    /\ map_result' = "ok"
    /\ read_result' = << >>
    /\ UNCHANGED <<tree, targets, target_idx_map, last_target, map_dirty,
                   streams, storeVars>>
    /\ UNCHANGED <<cacheVars, script, scopeVars, flushVars, imageVars,
                    storageVars>>

\* AFF4Map.GetBackingStream: the URN it returns.
GetBackingStream == IF targets # << >> THEN last_target ELSE DataURN

\* The streams after GetBackingStream, which creates a missing backing
\* stream.
WithBackingStream ==
    IF GetBackingStream \in DOMAIN streams THEN streams
    ELSE DictSet(streams, GetBackingStream, << >>)

\* A Write that maps its range onto the start of the backing stream.
Write_TargetStart(data) ==
    LET target == GetBackingStream
    IN /\ IF target = NoTarget
          THEN /\ map_result' = "error"
               /\ map_dirty' = TRUE
               /\ UNCHANGED <<tree, targets, target_idx_map, last_target,
                              streams, readptr>>
          ELSE /\ AddRangeEffect(readptr, 0, Len(data), target)
               /\ IF map_result' = "ok"
                  THEN /\ streams' =
                            [WithBackingStream EXCEPT ![target] = @ \o data]
                       /\ readptr' = readptr + Len(data)
                  ELSE /\ streams' = WithBackingStream
                       /\ readptr' = readptr
               /\ map_dirty' = TRUE
       /\ read_result' = << >>
       /\ UNCHANGED storeVars
       /\ UNCHANGED <<cacheVars, script, scopeVars, flushVars, imageVars,
                    storageVars>>

\* AFF4Map.Write: the map is marked dirty first; opening the backing stream
\* None of a loaded map raises.
Write(data) ==
    LET target == GetBackingStream
        size == Len(WithBackingStream[target])
    IN /\ IF target = NoTarget
          THEN /\ map_result' = "error"
               /\ map_dirty' = TRUE
               /\ UNCHANGED <<tree, targets, target_idx_map, last_target,
                              streams, readptr>>
          ELSE /\ AddRangeEffect(readptr, size, Len(data), target)
               /\ IF map_result' = "ok"
                  THEN /\ streams' =
                            [WithBackingStream EXCEPT ![target] = @ \o data]
                       /\ readptr' = readptr + Len(data)
                  ELSE /\ streams' = WithBackingStream
                       /\ readptr' = readptr
               /\ map_dirty' = TRUE
       /\ read_result' = << >>
       /\ UNCHANGED storeVars
       /\ UNCHANGED <<cacheVars, script, scopeVars, flushVars, imageVars,
                    storageVars>>

\* AFF4Map.WriteStream from a source that is not a map.
WriteStream(source) ==
    LET target == GetBackingStream
        size == Len(WithBackingStream[target]) + Len(source)
    IN /\ IF target = NoTarget
          THEN /\ map_result' = "error"
               /\ UNCHANGED <<tree, targets, target_idx_map, last_target,
                              map_dirty, streams>>
          ELSE /\ streams' =
                    [WithBackingStream EXCEPT ![target] = @ \o source]
               /\ AddRangeEffect(0, size, size, target)
               /\ map_dirty' = IF map_result' = "ok" THEN TRUE ELSE map_dirty
       /\ read_result' = << >>
       /\ UNCHANGED <<readptr, storeVars>>
       /\ UNCHANGED <<cacheVars, script, scopeVars, flushVars, imageVars,
                    storageVars>>

----------------------------------------------------------------------------
(* Storing and loading the map *)

\* Range.Serialize: the four fields struct.pack("<QQQI") lays out.
Serialize(r) == <<r.map_offset, r.target_offset, r.length, r.target_id>>

\* Range.FromSerialized
FromSerialized(string) == Range(string[1], string[2], string[3], string[4])

\* struct.calcsize(Range.format_str), in fields.
read_length == 4

\* The orders in which "for interval in self.tree" may visit the intervals.
TreeOrders(t) ==
    {f \in [1..Cardinality(t) -> t] :
        \A i \in 1..Cardinality(t) : \A j \in 1..Cardinality(t) :
            i # j => f[i] # f[j]}

\* What Flush writes to the map member, visiting the intervals in order.
RECURSIVE MapPayload(_)
MapPayload(order) ==
    IF order = << >> THEN << >>
    ELSE Serialize(Head(order)) \o MapPayload(Tail(order))

\* The line feed that separates the targets of the idx member.
LF == "\n"

\* "\n".join(targets)
RECURSIVE Join(_)
Join(tgts) ==
    IF tgts = << >> THEN << >>
    ELSE IF Len(tgts) = 1 THEN <<tgts[1]>>
    ELSE <<tgts[1], LF>> \o Join(Tail(tgts))

\* string.splitlines(): lines is the list so far, line the pending line.
RECURSIVE splitlines(_, _, _)
splitlines(string, lines, line) ==
    IF string = << >>
    THEN IF line = "" THEN lines ELSE Append(lines, line)
    ELSE IF Head(string) = LF
    THEN splitlines(Tail(string), Append(lines, line), "")
    ELSE splitlines(Tail(string), lines, line \o Head(string))

\* The loop of LoadFromURN over the map member.
RECURSIVE ReadRanges(_, _)
ReadRanges(payload, t) ==
    IF payload = << >> THEN t
    ELSE LET data == SubSeq(payload, 1, read_length)
             range == FromSerialized(data)
             rest == SubSeq(payload, read_length + 1, Len(payload))
         IN ReadRanges(rest, IF range.length > 0 THEN addi(t, range) ELSE t)

\* AFF4Map.Flush: a dirty map writes its map member, then its idx member,
\* then opens and closes every target. SerializeToString fails on a target
\* that LoadFromURN read, which is a plain string, and leaves the idx member
\* as it was or empty.
MapFlush ==
    /\ IF ~map_dirty
       THEN /\ map_result' = "ok"
            /\ UNCHANGED <<map_dirty, map_segment, idx_segment>>
       ELSE /\ \E order \in TreeOrders(tree) :
                  map_segment' = MapPayload(order)
            /\ IF loaded > 0
               THEN /\ idx_segment' \in {idx_segment, << >>}
                    /\ map_result' = "error"
                    /\ UNCHANGED map_dirty
               ELSE /\ idx_segment' = Join(targets)
                    /\ IF \A i \in 1..Len(targets) :
                             targets[i] \in DOMAIN streams
                       THEN map_result' = "ok" /\ map_dirty' = FALSE
                       ELSE map_result' = "error" /\ UNCHANGED map_dirty
    /\ read_result' = << >>
    /\ UNCHANGED <<tree, targets, target_idx_map, last_target, readptr,
                   streams, loaded>>
    /\ UNCHANGED <<cacheVars, script, scopeVars, flushVars, imageVars,
                    storageVars>>

\* AFF4Map.LoadFromURN on the map object a fresh resolver constructs; it
\* ends with MarkDirty.
LoadFromURN ==
    /\ targets' = splitlines(idx_segment, << >>, "")
    /\ tree' = ReadRanges(map_segment, {})
    /\ target_idx_map' = << >>
    /\ last_target' = NoTarget
    /\ map_dirty' = TRUE
    /\ loaded' = Len(targets')
    /\ readptr' = 0
    /\ read_result' = << >>
    /\ map_result' = "ok"
    /\ UNCHANGED <<streams, map_segment, idx_segment>>
    /\ UNCHANGED <<cacheVars, script, scopeVars, flushVars, imageVars,
                    storageVars>>

----------------------------------------------------------------------------
(* AFF4Image: a stream stored as bevies of compressed chunks *)

\* Bounds of the image streams explored.
MaxChunk == 2
MaxSegment == 2
MaxImage == 5
MaxImageRead == 3

\* The image of aff4image_test.setUp: chunk_size 10, chunks_per_segment 3,
\* 100 writes of "Hello world %02d!".
TestChunkSize == 10
TestChunksPerSegment == 3
TestWrites == 100
TestRead == 100
TestSize == 1500

\* The defaults of AFF4Image.LoadFromURN.
DefaultChunkSize == 32768
DefaultChunksPerSegment == 1024

ZLIB == "zlib"
STORED == "stored"

\* The first byte of a chunk zlib compressed.
ZHeader == "Z"

Digits == <<"0", "1", "2", "3", "4", "5", "6", "7", "8", "9">>

\* "Hello world %02d!" % i
HelloWorld(i) ==
    <<"H", "e", "l", "l", "o", " ", "w", "o", "r", "l", "d", " ",
      Digits[(i \div 10) + 1], Digits[(i % 10) + 1], "!">>

\* The strings the callers write to an image.
IMAGE_DATA == {<< >>, <<"a">>, <<"b", "c">>, <<"d", "e", "f">>}

\* The source streams the callers copy into an image.
SourceBytes == <<"s", "t", "u", "v", "w", "x", "y", "z">>
IMAGE_SOURCES == {SubSeq(SourceBytes, 1, n) : n \in 0..MaxImage}

\* The source stream of aff4image_test.setUp.
RECURSIVE HelloWorlds(_)
HelloWorlds(n) ==
    IF n = 0 THEN << >> ELSE HelloWorlds(n - 1) \o HelloWorld(n - 1)

TestSource == HelloWorlds(TestWrites)

\* zlib.compress, or the chunk itself when the compression is stored.
compress(compression, chunk) ==
    IF compression = ZLIB THEN <<ZHeader>> \o chunk ELSE chunk

\* zlib.decompress raises on a buffer that is not a zlib stream.
CanDecompress(compression, cbuffer) ==
    compression = ZLIB => (cbuffer # << >> /\ Head(cbuffer) = ZHeader)

decompress(compression, cbuffer) ==
    IF compression = ZLIB THEN Tail(cbuffer) ELSE cbuffer

\* b"".join(chunks)
RECURSIVE JoinChunks(_)
JoinChunks(chunks) ==
    IF chunks = << >> THEN << >>
    ELSE Head(chunks) \o JoinChunks(Tail(chunks))

\* AFF4SImage._write_bevy_index: the two fields struct.pack("<QI", offset,
\* length) lays out for each entry, joined.
RECURSIVE SerializeIndex(_)
SerializeIndex(bevy_index) ==
    IF bevy_index = << >> THEN << >>
    ELSE <<Head(bevy_index)[1], Head(bevy_index)[2]>>
         \o SerializeIndex(Tail(bevy_index))

\* AFF4SImage._parse_bevy_index: the (offset, length) pairs of the index
\* member.
_parse_bevy_index(data) ==
    [i \in 1..(Len(data) \div 2) |-> <<data[2 * i - 1], data[2 * i]>>]

\* The fields of an image object after AFF4Image.LoadFromURN, from the
\* metadata meta the resolver holds for it (none for a new image).
ImageLoadFromURN(meta) ==
    [chunk_size |-> IF meta = << >> THEN DefaultChunkSize
                    ELSE meta[1].chunk_size,
     chunks_per_segment |-> IF meta = << >> THEN DefaultChunksPerSegment
                            ELSE meta[1].chunks_per_segment,
     size |-> IF meta = << >> THEN 0 ELSE meta[1].size,
     compression |-> IF meta = << >> THEN ZLIB ELSE meta[1].compression,
     buffer |-> << >>,
     bevy |-> << >>,
     bevy_length |-> 0,
     bevy_index |-> << >>,
     chunk_count_in_bevy |-> 0,
     bevy_number |-> 0,
     readptr |-> 0,
     dirty |-> FALSE]

\* The members CreateMember adds to the volume for bevy number n: its index
\* segment and its payload segment.
IndexMember(n) == <<"index", n>>
BevyMember(n) == <<"bevy", n>>

\* A _FlushBevy that writes the payload segment before the index segment.
_FlushBevy_PayloadFirst(st) ==
    IF st.image.bevy = << >> THEN st
    ELSE [image |-> [st.image EXCEPT !.chunk_count_in_bevy = 0,
                                     !.bevy_number = @ + 1,
                                     !.bevy = << >>,
                                     !.bevy_index = << >>,
                                     !.bevy_length = 0],
          volume |-> [st.volume EXCEPT
                        !.indexes = DictSet(@, st.image.bevy_number,
                                            SerializeIndex(st.image.bevy_index)),
                        !.bevies = DictSet(@, st.image.bevy_number,
                                           JoinChunks(st.image.bevy)),
                        !.members = @ \o <<BevyMember(st.image.bevy_number),
                                           IndexMember(st.image.bevy_number)>>]]

\* A _FlushBevy that does not start the next bevy.
_FlushBevy_SameNumber(st) ==
    IF st.image.bevy = << >> THEN st
    ELSE [image |-> [st.image EXCEPT !.chunk_count_in_bevy = 0,
                                     !.bevy = << >>,
                                     !.bevy_index = << >>,
                                     !.bevy_length = 0],
          volume |-> [st.volume EXCEPT
                        !.indexes = DictSet(@, st.image.bevy_number,
                                            SerializeIndex(st.image.bevy_index)),
                        !.bevies = DictSet(@, st.image.bevy_number,
                                           JoinChunks(st.image.bevy)),
                        !.members = @ \o <<IndexMember(st.image.bevy_number),
                                           BevyMember(st.image.bevy_number)>>]]

\* AFF4Image._FlushBevy: the index member and the bevy member of the bevy
\* are written, and the next bevy starts empty.
_FlushBevy(st) ==
    IF st.image.bevy = << >> THEN st
    ELSE [image |-> [st.image EXCEPT !.chunk_count_in_bevy = 0,
                                     !.bevy_number = @ + 1,
                                     !.bevy = << >>,
                                     !.bevy_index = << >>,
                                     !.bevy_length = 0],
          volume |-> [st.volume EXCEPT
                        !.indexes = DictSet(@, st.image.bevy_number,
                                            SerializeIndex(st.image.bevy_index)),
                        !.bevies = DictSet(@, st.image.bevy_number,
                                           JoinChunks(st.image.bevy)),
                        !.members = @ \o <<IndexMember(st.image.bevy_number),
                                           BevyMember(st.image.bevy_number)>>]]

\* A FlushChunk that flushes the bevy one chunk late.
FlushChunk_Late(st, chunk) ==
    LET bevy_offset == st.image.bevy_length
        compressed_chunk == compress(st.image.compression, chunk)
        appended ==
          [st EXCEPT
             !.image.bevy_index =
                 Append(@, <<bevy_offset, Len(compressed_chunk)>>),
             !.image.bevy = Append(@, compressed_chunk),
             !.image.bevy_length = @ + Len(compressed_chunk),
             !.image.chunk_count_in_bevy = @ + 1]
    IN IF appended.image.chunk_count_in_bevy
             > appended.image.chunks_per_segment
       THEN _FlushBevy(appended)
       ELSE appended

\* AFF4Image.FlushChunk
FlushChunk(st, chunk) ==
    LET bevy_offset == st.image.bevy_length
        compressed_chunk == compress(st.image.compression, chunk)
        appended ==
          [st EXCEPT
             !.image.bevy_index =
                 Append(@, <<bevy_offset, Len(compressed_chunk)>>),
             !.image.bevy = Append(@, compressed_chunk),
             !.image.bevy_length = @ + Len(compressed_chunk),
             !.image.chunk_count_in_bevy = @ + 1]
    IN IF appended.image.chunk_count_in_bevy
             >= appended.image.chunks_per_segment
       THEN _FlushBevy(appended)
       ELSE appended

\* A Write loop that keeps in the buffer the last byte it has flushed.
RECURSIVE WriteChunks_Overlap(_, _)
WriteChunks_Overlap(st, idx) ==
    IF Len(st.image.buffer) - idx > st.image.chunk_size
    THEN LET chunk == SubSeq(st.image.buffer, idx + 1,
                             idx + st.image.chunk_size)
         IN WriteChunks_Overlap(FlushChunk(st, chunk),
                                idx + st.image.chunk_size)
    ELSE [st EXCEPT !.image.buffer = SubSeq(@, Max(idx, 1), Len(@))]

\* A Write loop that also flushes a last chunk that is whole.
RECURSIVE WriteChunks_Eager(_, _)
WriteChunks_Eager(st, idx) ==
    IF Len(st.image.buffer) - idx >= st.image.chunk_size
    THEN LET chunk == SubSeq(st.image.buffer, idx + 1,
                             idx + st.image.chunk_size)
         IN WriteChunks_Eager(FlushChunk(st, chunk),
                              idx + st.image.chunk_size)
    ELSE [st EXCEPT !.image.buffer = SubSeq(@, idx + 1, Len(@))]

\* The loop of AFF4Image.Write: every chunk of the buffer but the last,
\* which stays in the buffer even when it is a whole chunk.
RECURSIVE WriteChunks(_, _)
WriteChunks(st, idx) ==
    IF Len(st.image.buffer) - idx > st.image.chunk_size
    THEN LET chunk == SubSeq(st.image.buffer, idx + 1,
                             idx + st.image.chunk_size)
         IN WriteChunks(FlushChunk(st, chunk), idx + st.image.chunk_size)
    ELSE [st EXCEPT !.image.buffer = SubSeq(@, idx + 1, Len(@))]

\* The body of AFF4Image.Write, on the image img stored in vol.
ImageWriteEffect(img, vol, data) ==
    LET marked == [image |-> [img EXCEPT !.dirty = TRUE,
                                          !.buffer = @ \o data],
                   volume |-> vol]
        st == WriteChunks(marked, 0)
        moved == st.image.readptr + Len(data)
    IN [st EXCEPT !.image.readptr = moved,
                  !.image.size = IF moved > @ THEN moved ELSE @]

\* AFF4Image.Write
ImageWrite(data) ==
    LET st == ImageWriteEffect(image, volume, data)
    IN /\ image' = st.image
       /\ volume' = st.volume
       /\ written' = written \o data
       /\ image_result' = << >>
       /\ UNCHANGED image_pc
       /\ UNCHANGED <<cacheVars, script, scopeVars, flushVars, mapVars, storageVars>>

\* lexicon.AFF4_IMAGE_TYPE
AFF4_IMAGE_TYPE == "ImageStream"

\* AFF4Image._write_metadata
_write_metadata(img) ==
    <<[type |-> AFF4_IMAGE_TYPE,
       chunk_size |-> img.chunk_size,
       chunks_per_segment |-> img.chunks_per_segment,
       size |-> img.size,
       compression |-> img.compression]>>

\* A Flush that leaves the image dirty.
ImageFlush_StaysDirty ==
    /\ IF image.dirty
       THEN LET st == _FlushBevy(
                        FlushChunk([image |-> image, volume |-> volume],
                                   image.buffer))
            IN /\ image' = st.image
               /\ volume' = [st.volume EXCEPT
                               !.meta = _write_metadata(st.image)]
       ELSE UNCHANGED <<image, volume>>
    /\ image_result' = << >>
    /\ UNCHANGED <<image_pc, written>>
    /\ UNCHANGED <<cacheVars, script, scopeVars, flushVars, mapVars, storageVars>>

\* AFF4Image.Flush: a dirty image flushes its buffer as the last chunk, then
\* the bevy, then writes its metadata. The buffer is not emptied.
ImageFlushEffect(img, vol) ==
    IF img.dirty
    THEN LET st == _FlushBevy(FlushChunk([image |-> img, volume |-> vol],
                                         img.buffer))
         IN [image |-> [st.image EXCEPT !.dirty = FALSE],
             volume |-> [st.volume EXCEPT
                           !.meta = _write_metadata(st.image)]]
    ELSE [image |-> img, volume |-> vol]

\* AFF4Image.Flush
ImageFlush ==
    /\ image' = ImageFlushEffect(image, volume).image
    /\ volume' = ImageFlushEffect(image, volume).volume
    /\ image_result' = << >>
    /\ UNCHANGED <<image_pc, written>>
    /\ UNCHANGED <<cacheVars, script, scopeVars, flushVars, mapVars, storageVars>>

\* A _CompressorStream that does not stop when the bevy is full.
RECURSIVE CompressorReads_NoStop(_, _, _)
CompressorReads_NoStop(owner, source, stream) ==
    LET chunk == StreamRead(source, stream.pos, owner.chunk_size)
        compressed_chunk == compress(owner.compression, chunk)
    IN IF chunk = << >> THEN stream
       ELSE CompressorReads_NoStop(owner, source,
              [pos |-> stream.pos + Len(chunk),
               size |-> stream.size + Len(chunk),
               bevy_index |-> Append(stream.bevy_index,
                                     <<stream.bevy_length,
                                       Len(compressed_chunk)>>),
               bevy_length |-> stream.bevy_length + Len(compressed_chunk),
               chunk_count_in_bevy |-> stream.chunk_count_in_bevy + 1,
               data |-> stream.data \o compressed_chunk])

\* The reads of one _CompressorStream until it returns the empty string:
\* each read takes a chunk from the source, which keeps its position pos,
\* and gives the compressed chunk to the bevy member (data).
RECURSIVE CompressorReads(_, _, _)
CompressorReads(owner, source, stream) ==
    IF stream.chunk_count_in_bevy >= owner.chunks_per_segment THEN stream
    ELSE
      LET chunk == StreamRead(source, stream.pos, owner.chunk_size)
          compressed_chunk == compress(owner.compression, chunk)
      IN IF chunk = << >> THEN stream
         ELSE CompressorReads(owner, source,
                [pos |-> stream.pos + Len(chunk),
                 size |-> stream.size + Len(chunk),
                 bevy_index |-> Append(stream.bevy_index,
                                       <<stream.bevy_length,
                                         Len(compressed_chunk)>>),
                 bevy_length |-> stream.bevy_length + Len(compressed_chunk),
                 chunk_count_in_bevy |-> stream.chunk_count_in_bevy + 1,
                 data |-> stream.data \o compressed_chunk])

\* The loop of AFF4Image.WriteStream: a bevy at a time, until a bevy comes
\* out not full.
RECURSIVE WriteStreamBevies(_, _, _)
WriteStreamBevies(st, source, pos) ==
    LET stream == CompressorReads(st.image, source,
                     [pos |-> pos, size |-> 0, bevy_index |-> << >>,
                      bevy_length |-> 0, chunk_count_in_bevy |-> 0,
                      data |-> << >>])
        next ==
          [image |-> [st.image EXCEPT !.bevy_number = @ + 1,
                                      !.size = @ + stream.size,
                                      !.readptr = @ + stream.size],
           volume |-> [st.volume EXCEPT
                         !.bevies = DictSet(@, st.image.bevy_number,
                                            stream.data),
                         !.indexes = DictSet(@, st.image.bevy_number,
                                             SerializeIndex(
                                                 stream.bevy_index)),
                         !.members = @ \o <<BevyMember(st.image.bevy_number),
                                            IndexMember(st.image.bevy_number)>>]]
    IN IF stream.chunk_count_in_bevy # st.image.chunks_per_segment
       THEN next
       ELSE WriteStreamBevies(next, source, stream.pos)

\* The body of AFF4Image.WriteStream from a source that stands at offset 0.
ImageWriteStreamEffect(img, vol, source) ==
    LET st == WriteStreamBevies([image |-> img, volume |-> vol], source, 0)
    IN [st EXCEPT !.volume.meta = _write_metadata(st.image)]

\* AFF4Image.WriteStream
ImageWriteStream(source) ==
    LET st == ImageWriteStreamEffect(image, volume, source)
    IN /\ image' = st.image
       /\ volume' = st.volume
       /\ written' = written \o source
       /\ image_result' = << >>
       /\ UNCHANGED image_pc
       /\ UNCHANGED <<cacheVars, script, scopeVars, flushVars, mapVars, storageVars>>

\* AFF4FactoryOpen of the image in a fresh resolver, which has parsed the
\* metadata of the volume: a new object, LoadFromURN, Prepare.
ImageOpen ==
    /\ image' = ImageLoadFromURN(volume.meta)
    /\ image_pc' = "reopened"
    /\ image_result' = << >>
    /\ UNCHANGED <<volume, written>>
    /\ UNCHANGED <<cacheVars, script, scopeVars, flushVars, mapVars, storageVars>>

\* AFF4Image._ReadChunkFromBevy can return the chunk: its bevy and index
\* members exist, the index has its entry and the chunk decompresses.
ChunkReadable(img, vol, chunk_id) ==
    LET bevy_id == chunk_id \div img.chunks_per_segment
        chunk_id_in_bevy == chunk_id % img.chunks_per_segment
    IN /\ bevy_id \in DOMAIN vol.bevies
       /\ bevy_id \in DOMAIN vol.indexes
       /\ chunk_id_in_bevy < Len(_parse_bevy_index(vol.indexes[bevy_id]))
       /\ LET entry == _parse_bevy_index(vol.indexes[bevy_id])
                          [chunk_id_in_bevy + 1]
          IN CanDecompress(img.compression,
                           StreamRead(vol.bevies[bevy_id], entry[1],
                                      entry[2]))

\* AFF4Image._ReadChunkFromBevy
_ReadChunkFromBevy(img, vol, chunk_id) ==
    LET bevy_id == chunk_id \div img.chunks_per_segment
        chunk_id_in_bevy == chunk_id % img.chunks_per_segment
        entry == _parse_bevy_index(vol.indexes[bevy_id])[chunk_id_in_bevy + 1]
        cbuffer == StreamRead(vol.bevies[bevy_id], entry[1], entry[2])
    IN decompress(img.compression, cbuffer)

\* AFF4Image._ReadPartial: the chunks chunk_id .. chunk_id + n - 1, joined.
RECURSIVE _ReadPartial(_, _, _, _)
_ReadPartial(img, vol, chunk_id, chunks_to_read) ==
    IF chunks_to_read <= 0 THEN << >>
    ELSE _ReadChunkFromBevy(img, vol, chunk_id)
         \o _ReadPartial(img, vol, chunk_id + 1, chunks_to_read - 1)

\* The body of AFF4Image.Read: the bytes returned, or the IOError of a chunk
\* that cannot be read.
ImageReadEffect(img, vol, len) ==
    IF len = 0 THEN [raised |-> FALSE, result |-> << >>]
    ELSE
      LET length == Min(len, img.size - img.readptr)
          initial_chunk_id == img.readptr \div img.chunk_size
          initial_chunk_offset == img.readptr % img.chunk_size
          final_chunk_id == (img.readptr + length - 1) \div img.chunk_size
          chunks_to_read == final_chunk_id - initial_chunk_id + 1
      IN IF \E c \in initial_chunk_id..final_chunk_id :
                ~ChunkReadable(img, vol, c)
         THEN [raised |-> TRUE, result |-> << >>]
         ELSE LET data == _ReadPartial(img, vol, initial_chunk_id,
                                       chunks_to_read)
                  cut == SubSeq(data, initial_chunk_offset + 1, Len(data))
              IN [raised |-> FALSE,
                  result |-> SubSeq(cut, 1, Min(Max(length, 0), Len(cut)))]

\* AFF4Image.Read
ImageRead(length) ==
    LET r == ImageReadEffect(image, volume, length)
    IN /\ image_result' = IF r.raised THEN <<"IOError">> ELSE r.result
       /\ image' = [image EXCEPT !.readptr = @ + Len(r.result)]
       /\ UNCHANGED <<image_pc, volume, written>>
       /\ UNCHANGED <<cacheVars, script, scopeVars, flushVars, mapVars, storageVars>>

----------------------------------------------------------------------------

-----------------------------------------------------------------------------
(* FileBackedObject (aff4_file.py) and the AFF4Stream it extends *)

\* The longest file of the callers that are not the test.
MaxFile == 4

\* No object of the URN in the object cache.
NoStream ==
    [open |-> FALSE, flags |-> "", pos |-> 0, readptr |-> 0, dirty |-> FALSE]

\* An fd.write that writes at the start of the file.
fd_write_AtStart(flags, bytes, pos, data) ==
    IF flags = "rb" THEN [raised |-> TRUE, bytes |-> bytes, pos |-> pos]
    ELSE [raised |-> FALSE,
          bytes |-> data \o SubSeq(bytes, Len(data) + 1, Len(bytes)),
          pos |-> Len(data)]

\* fd.write(data) of a file object opened with flags, at the position pos of
\* the file that holds bytes: "w+b" writes at the position, filling a gap
\* after the end with zero bytes, "a+b" writes at the end whatever the
\* position, and "rb" raises IOError.
fd_write(flags, bytes, pos, data) ==
    IF flags = "rb" THEN [raised |-> TRUE, bytes |-> bytes, pos |-> pos]
    ELSE IF data = << >>
    THEN [raised |-> FALSE, bytes |-> bytes, pos |-> pos]
    ELSE IF flags = "a+b"
    THEN [raised |-> FALSE, bytes |-> bytes \o data,
          pos |-> Len(bytes) + Len(data)]
    ELSE [raised |-> FALSE,
          bytes |-> IF pos >= Len(bytes)
                    THEN bytes \o Zeros(pos - Len(bytes)) \o data
                    ELSE SubSeq(bytes, 1, pos) \o data
                           \o SubSeq(bytes, pos + Len(data) + 1, Len(bytes)),
          pos |-> pos + Len(data)]

\* A LoadFromURN that leaves the stored mode as it is.
FileLoadFromURN_KeepMode(d, mode) ==
    LET flags == IF mode = "truncate" THEN "w+b"
                 ELSE IF mode = "append" THEN "a+b" ELSE "rb"
        opened == IF flags = "w+b" THEN [exists |-> TRUE, bytes |-> << >>]
                  ELSE IF flags = "a+b"
                  THEN [exists |-> TRUE, bytes |-> d.bytes]
                  ELSE d
    IN IF flags = "rb" /\ ~d.exists
       THEN [raised |-> TRUE, disk |-> d, write_mode |-> mode,
             stream |-> NoStream]
       ELSE [raised |-> FALSE, disk |-> opened, write_mode |-> mode,
             stream |-> [open |-> TRUE, flags |-> flags,
                         pos |-> Len(opened.bytes), readptr |-> 0,
                         dirty |-> FALSE]]

\* FileBackedObject.LoadFromURN on the file d when the resolver holds mode
\* for the URN: open(filename, flags) truncates the file ("w+b"), creates it
\* when it is missing ("w+b", "a+b") or raises IOError when it is missing
\* ("rb"); the fd then stands at the end of the file.
FileLoadFromURN(d, mode) ==
    LET flags == IF mode = "truncate" THEN "w+b"
                 ELSE IF mode = "append" THEN "a+b" ELSE "rb"
        opened == IF flags = "w+b" THEN [exists |-> TRUE, bytes |-> << >>]
                  ELSE IF flags = "a+b"
                  THEN [exists |-> TRUE, bytes |-> d.bytes]
                  ELSE d
    IN IF flags = "rb" /\ ~d.exists
       THEN [raised |-> TRUE, disk |-> d, write_mode |-> mode,
             stream |-> NoStream]
       ELSE [raised |-> FALSE, disk |-> opened,
             write_mode |-> IF mode = "truncate" THEN "append" ELSE mode,
             stream |-> [open |-> TRUE, flags |-> flags,
                         pos |-> Len(opened.bytes), readptr |-> 0,
                         dirty |-> FALSE]]

\* FileBackedObject.Write on the stream st of the file that holds bytes.
FileWriteEffect(st, bytes, data) ==
    LET w == fd_write(st.flags, bytes, st.readptr, data)
    IN [raised |-> w.raised,
        bytes |-> w.bytes,
        stream |-> [st EXCEPT !.dirty = TRUE,
                              !.pos = w.pos,
                              !.readptr = IF w.raised THEN @
                                          ELSE @ + Len(data)]]

\* FileBackedObject.Size: the fd moves to the end of the file.
FileSizeEffect(st, bytes) == [st EXCEPT !.pos = Len(bytes)]

\* AFF4Stream.Seek on a FileBackedObject.
FileSeekEffect(st, bytes, offset, whence) ==
    LET sized == IF whence = 2 THEN FileSizeEffect(st, bytes) ELSE st
        moved == IF whence = 0 THEN offset
                 ELSE IF whence = 1 THEN st.readptr + offset
                 ELSE IF whence = 2 THEN offset + Len(bytes)
                 ELSE st.readptr
    IN [sized EXCEPT !.readptr = IF moved < 0 THEN 0 ELSE moved]

\* FileBackedObject.Read
FileReadEffect(st, bytes, length) ==
    LET data == StreamRead(bytes, st.readptr, length)
    IN [result |-> data,
        stream |-> [st EXCEPT !.pos = st.readptr + Len(data),
                              !.readptr = @ + Len(data)]]

\* resolver.AFF4FactoryOpen(urn) of the file: the cached object after
\* Prepare, or a new object after LoadFromURN and Prepare.
FileOpen ==
    /\ IF file_stream.open
       THEN /\ file_stream' = [file_stream EXCEPT !.readptr = 0]
            /\ file_result' = << >>
            /\ UNCHANGED <<disk, write_mode, truncated>>
       ELSE LET r == FileLoadFromURN(disk, write_mode)
            IN /\ disk' = r.disk
               /\ write_mode' = r.write_mode
               /\ file_stream' = r.stream
               /\ file_result' = IF r.raised THEN <<"IOError">> ELSE << >>
               /\ truncated' = IF r.stream.flags = "w+b"
                               THEN truncated + 1 ELSE truncated
    /\ UNCHANGED <<cacheVars, script, scopeVars, flushVars, mapVars,
                   imageVars, zipVars, resolverVars, copyVars>>

\* stream.Write(data)
FileWrite(data) ==
    LET r == FileWriteEffect(file_stream, disk.bytes, data)
    IN /\ file_stream.open
       /\ disk' = [disk EXCEPT !.bytes = r.bytes]
       /\ file_stream' = r.stream
       /\ file_result' = IF r.raised THEN <<"IOError">> ELSE << >>
       /\ UNCHANGED write_mode
       /\ UNCHANGED <<truncated, cacheVars, script, scopeVars, flushVars,
                      mapVars, imageVars, zipVars, resolverVars, copyVars>>

\* stream.Seek(offset, whence)
FileSeek(offset, whence) ==
    /\ file_stream.open
    /\ file_stream' = FileSeekEffect(file_stream, disk.bytes, offset, whence)
    /\ file_result' = << >>
    /\ UNCHANGED <<disk, write_mode>>
    /\ UNCHANGED <<truncated, cacheVars, script, scopeVars, flushVars,
                   mapVars, imageVars, zipVars, resolverVars, copyVars>>

\* stream.Read(length)
FileRead(length) ==
    LET r == FileReadEffect(file_stream, disk.bytes, length)
    IN /\ file_stream.open
       /\ file_stream' = r.stream
       /\ file_result' = r.result
       /\ UNCHANGED <<disk, write_mode>>
       /\ UNCHANGED <<truncated, cacheVars, script, scopeVars, flushVars,
                      mapVars, imageVars, zipVars, resolverVars, copyVars>>

\* stream.Size()
FileSize ==
    /\ file_stream.open
    /\ file_stream' = FileSizeEffect(file_stream, disk.bytes)
    /\ file_result' = << >>
    /\ UNCHANGED <<disk, write_mode>>
    /\ UNCHANGED <<truncated, cacheVars, script, scopeVars, flushVars,
                   mapVars, imageVars, zipVars, resolverVars, copyVars>>

\* AFF4ObjectCache._Trim on the entry of the stream: the object is flushed
\* and leaves the cache.
FileTrim ==
    /\ file_stream.open
    /\ file_stream' = NoStream
    /\ file_result' = << >>
    /\ UNCHANGED <<disk, write_mode>>
    /\ UNCHANGED <<truncated, cacheVars, script, scopeVars, flushVars,
                   mapVars, imageVars, zipVars, resolverVars, copyVars>>

\* The strings of StreamTest.streamTest.
HelloWorldText ==
    <<"h", "e", "l", "l", "o", " ", "w", "o", "r", "l", "d">>

CruelWorldText ==
    <<"C", "r", "u", "e", "l", " ", "w", "o", "r", "l", "d">>

HelloCruelWorldText ==
    <<"h", "e", "l", "l", "o", " ", "C", "r", "u", "e", "l", " ", "w", "o",
      "r", "l", "d">>

ArmsAndLegsText ==
    <<"I", " ", "h", "a", "v", "e", " ", "2", " ", "a", "r", "m", "s", " ",
      "a", "n", "d", " ", "0", "x", "4", "0", "1", " ", "l", "e", "g", "s",
      ".">>

\* The calls of StreamTest.streamTest, after the AFF4FactoryOpen of
\* testFileBackedStream.
streamTest ==
    <<[op |-> "Size"],
      [op |-> "Write", data |-> HelloWorldText],
      [op |-> "Seek", offset |-> 0, whence |-> 0],
      [op |-> "Read", length |-> 1000],
      [op |-> "Seek", offset |-> -5, whence |-> 2],
      [op |-> "Read", length |-> 1000],
      [op |-> "Seek", offset |-> -5, whence |-> 2],
      [op |-> "Write", data |-> CruelWorldText],
      [op |-> "Seek", offset |-> 0, whence |-> 0],
      [op |-> "Read", length |-> 1000],
      [op |-> "Seek", offset |-> 0, whence |-> 0],
      [op |-> "Read", length |-> 2],
      [op |-> "Write", data |-> ArmsAndLegsText],
      [op |-> "Seek", offset |-> 0, whence |-> 0],
      [op |-> "Read", length |-> 1000]>>

\* The strings the other callers write to a file.
FILE_DATA == {<<"a">>, <<"b", "c">>}

-----------------------------------------------------------------------------
(* ZipFile and ZipFileSegment (zip.py) *)

\* The most cells of backing file at which the callers still flush.
MaxZipFile == 30
\* The most bytes the callers that are not the test write to a member.
MaxMember == 2

ZIP_STORED == 0
ZIP_DEFLATE == 8

\* The value of F at the value of v: the name a statement binds its result
\* to, for the statements that follow it.
With(v, F(_)) == CHOOSE r \in {F(x) : x \in {v}} : TRUE

\* The backing file of a volume is a sequence of cells: a packed struct is
\* one cell that starts with the name of its magic, followed by its fields;
\* a file name is one cell; a byte b of a member is the cell <<"D", b>>.
\* sizeof() of every struct, file_name_length and extra_field_len are
\* therefore 1.
Cells(data) == [i \in 1..Len(data) |-> <<"D", data[i]>>]

\* The bytes of a run of member cells.
Uncells(cells) == [i \in 1..Len(cells) |-> cells[i][2]]

\* compressor.compress(data) + compressor.flush() of a raw deflate
\* compressor: a block header, then the data.
deflate(data) == <<<<"DEFLATE">>>> \o Cells(data)

\* DecompressBuffer; the result is the empty string with failed TRUE when the
\* buffer is no deflate stream.
DecompressBuffer(buffer) ==
    IF buffer # << >> /\ buffer[1] = <<"DEFLATE">>
    THEN [failed |-> FALSE, data |-> Uncells(SubSeq(buffer, 2, Len(buffer)))]
    ELSE [failed |-> TRUE, data |-> << >>]

\* The bytes the callers write to members, and their codes.
MEMBER_BYTES == <<"a", "b", "I", " ", "m", "s", "e", "g", "n", "t", "!",
                  "o", "h", "r">>

ord(b) == CHOOSE i \in 1..Len(MEMBER_BYTES) : MEMBER_BYTES[i] = b

\* zlib.crc32(data, crc), as a checksum of 8 bits.
RECURSIVE crc32(_, _)
crc32(data, crc) ==
    IF data = << >> THEN crc
    ELSE crc32(Tail(data), (crc * 31 + ord(Head(data))) % 256)

\* The member names: that of ZipTest and that of the metadata.
SegmentName == "Foobar.txt"
TurtleName == "information.turtle"
SEGMENTS == {SegmentName, TurtleName}

\* The URN of the volume, and the key of a member in ZipFile.members: its
\* member name where parse_cd stored it, its URN where StreamAddMember did.
VolumeURN == "aff4://volume"
member_name_for_urn(name) == <<name>>
urn_from_member_name(name) == <<VolumeURN, name>>

\* self.file_header_offset = None
NoOffset == -1

ZipInfo(compression_method, compress_size, file_size, filename, local_header_offset, crc) ==
    [compression_method |-> compression_method,
     compress_size |-> compress_size,
     file_size |-> file_size,
     filename |-> filename,
     local_header_offset |-> local_header_offset,
     crc32 |-> crc,
     file_header_offset |-> NoOffset]

\* The volume, its segments and its backing file taken together.
World ==
    [disk |-> disk, write_mode |-> write_mode, file_stream |-> file_stream,
     truncated |-> truncated, zip |-> zip, segments |-> segments]

\* resolver.AFF4FactoryOpen(backing_store_urn)
BackingOpen(w) ==
    IF w.file_stream.open THEN [w EXCEPT !.file_stream.readptr = 0]
    ELSE LET r == FileLoadFromURN(w.disk, w.write_mode)
         IN [w EXCEPT !.disk = r.disk,
                      !.write_mode = r.write_mode,
                      !.file_stream = r.stream,
                      !.truncated = IF r.stream.flags = "w+b"
                                    THEN @ + 1 ELSE @]

\* backing_store.Seek(offset, whence)
BackingSeek(w, offset, whence) ==
    [w EXCEPT !.file_stream =
        FileSeekEffect(@, w.disk.bytes, offset, whence)]

\* backing_store.Write(cells)
BackingWrite(w, cells) ==
    LET r == FileWriteEffect(w.file_stream, w.disk.bytes, cells)
    IN [w EXCEPT !.disk.bytes = r.bytes, !.file_stream = r.stream]

\* ZipFileHeader(...).Pack() of WriteFileHeader
ZipFileHeader(zip_info) ==
    <<"ZipFileHeader", zip_info.crc32, -1, -1, 1,
      zip_info.compression_method, 1>>

\* Zip64FileHeaderExtensibleField(...).Pack()
Zip64FileHeaderExtensibleField(zip_info) ==
    <<"Zip64FileHeaderExtensibleField", zip_info.file_size,
      zip_info.compress_size, zip_info.local_header_offset>>

\* ZipInfo.WriteFileHeader
WriteFileHeader(zip_info, w) ==
    LET offset == IF zip_info.file_header_offset = NoOffset
                  THEN w.file_stream.readptr
                  ELSE zip_info.file_header_offset
    IN With(BackingSeek(w, offset, 0), LAMBDA w1 :
       With(BackingWrite(w1, <<ZipFileHeader(zip_info)>>), LAMBDA w2 :
       With(BackingWrite(w2, <<<<"filename", zip_info.filename>>>>),
            LAMBDA w3 :
         [zip_info |-> [zip_info EXCEPT !.file_header_offset = offset],
          world |-> BackingWrite(
                        w3, <<Zip64FileHeaderExtensibleField(zip_info)>>)])))

\* ZipFile.StreamAddMember of the member name from a stream that yields
\* data; global_offset is 0 in a volume that was not parsed from a file.
StreamAddMember(w, name, data, compression_method) ==
    LET c_data == IF compression_method = ZIP_DEFLATE THEN deflate(data)
                  ELSE Cells(data)
    IN With(BackingOpen(w), LAMBDA backing_store :
       With(BackingSeek(backing_store, 0, 2), LAMBDA w0 :
       With(ZipInfo(compression_method, 0, 0, name,
                    w0.file_stream.readptr, 0), LAMBDA new_info :
       With(WriteFileHeader(new_info, w0), LAMBDA first :
       With(BackingWrite(first.world, c_data), LAMBDA w1 :
       With([first.zip_info EXCEPT !.compress_size = Len(c_data),
                                   !.file_size = Len(data),
                                   !.crc32 = crc32(data, 0)],
            LAMBDA zip_info :
       With(WriteFileHeader(zip_info, w1), LAMBDA second :
         [second.world EXCEPT
            !.zip.members = DictSet(@, urn_from_member_name(name),
                                    second.zip_info)])))))))

\* No ZipFileSegment of the name in the object cache.
NoSegment ==
    [cached |-> FALSE, writable |-> TRUE, bytes |-> << >>, readptr |-> 0,
     dirty |-> FALSE, compression_method |-> ZIP_STORED]

\* ZipFileSegment.Flush of the cached segment: Seek(0), and the owner reads
\* the segment to its end.
SegmentFlush(w, name) ==
    LET segment == w.segments[name]
    IN IF segment.cached /\ segment.dirty
       THEN LET added == StreamAddMember(w, name, segment.bytes,
                                         segment.compression_method)
            IN [added EXCEPT !.segments[name].readptr = Len(segment.bytes),
                             !.segments[name].dirty = FALSE]
       ELSE w

\* ZipFile.CreateZipSegment: the cached segment as it is, or a new one that
\* LoadFromZipFile leaves empty when members holds nothing under the member
\* name, and read-only on the stored member otherwise.
CreateZipSegment(w, name) ==
    LET marked == [w EXCEPT !.zip.dirty = TRUE]
    IN IF w.segments[name].cached THEN marked
       ELSE [marked EXCEPT
               !.zip.children = @ \cup {name},
               !.segments[name] =
                  [NoSegment EXCEPT
                     !.cached = TRUE,
                     !.writable =
                        member_name_for_urn(name) \notin DOMAIN w.zip.members]]

\* segment.Write(data): FileBackedObject.Write on the StringIO of the
\* segment.
SegmentWrite(w, name, data) ==
    LET segment == w.segments[name]
        r == fd_write("w+b", segment.bytes, segment.readptr, data)
    IN IF ~segment.writable
       THEN [w EXCEPT !.segments[name].dirty = TRUE]
       ELSE [w EXCEPT !.segments[name] =
               [segment EXCEPT !.dirty = TRUE,
                               !.bytes = r.bytes,
                               !.readptr = @ + Len(data)]]

\* segment.Seek(0, 2)
SegmentSeekEnd(w, name) ==
    [w EXCEPT !.segments[name].readptr = Len(w.segments[name].bytes)]

\* resolver.DumpToTurtle writes this to the stream.
TurtleText == <<"t">>

\* CDFileHeader, file name and Zip64 field of one member, as
\* ZipInfo.WriteCDFileHeader writes them.
WriteCDFileHeader(zip_info) ==
    <<<<"CDFileHeader", zip_info.compression_method, zip_info.crc32, 1, 1,
        -1, -1, -1>>,
      <<"filename", zip_info.filename>>,
      Zip64FileHeaderExtensibleField(zip_info)>>

\* The keys of members in the order members.iteritems() yields them.
MemberKeys(members) ==
    SelectSeq(<<urn_from_member_name(SegmentName),
                urn_from_member_name(TurtleName),
                member_name_for_urn(SegmentName),
                member_name_for_urn(TurtleName)>>,
              LAMBDA key : key \in DOMAIN members)

RECURSIVE DirectoryEntries(_, _)
DirectoryEntries(members, keys) ==
    IF keys = << >> THEN << >>
    ELSE WriteCDFileHeader(members[Head(keys)])
           \o DirectoryEntries(members, Tail(keys))

\* ZipFile.write_zip64_CD
write_zip64_CD(w) ==
    With(BackingOpen(w), LAMBDA backing_store :
    With(BackingSeek(backing_store, 0, 2), LAMBDA w0 :
    With(DirectoryEntries(w.zip.members, MemberKeys(w.zip.members)),
         LAMBDA entries :
      LET ecd_real_offset == w0.file_stream.readptr
          total_entries == Cardinality(DOMAIN w.zip.members)
          size_of_cd == Len(entries)
          offset_of_end_cd == size_of_cd + ecd_real_offset
          cd_stream ==
              entries
              \o <<<<"Zip64EndCD", total_entries, total_entries,
                     size_of_cd, offset_of_end_cd - size_of_cd>>,
                   <<"Zip64CDLocator", offset_of_end_cd>>,
                   <<"EndCentralDirectory", total_entries, total_entries,
                     -1, -1, 1>>,
                   <<"urn", VolumeURN>>>>
      IN BackingWrite(w0, cd_stream))))

\* The loop of ZipFile.Flush over its children: the cached ones are flushed,
\* and all leave the set.
FlushChildren(w) ==
    With(IF SegmentName \in w.zip.children
         THEN SegmentFlush(w, SegmentName) ELSE w, LAMBDA user :
    With(IF TurtleName \in w.zip.children
         THEN SegmentFlush(user, TurtleName) ELSE user, LAMBDA turtle :
      [turtle EXCEPT !.zip.children = {}]))

\* ZipFile.Flush
ZipFlushEffect(w) ==
    IF w.zip.dirty
    THEN With(FlushChildren(w), LAMBDA flushed :
         With(CreateZipSegment(flushed, TurtleName), LAMBDA created :
         With([created EXCEPT
                 !.segments[TurtleName].compression_method = ZIP_DEFLATE],
              LAMBDA deflated :
         With(SegmentWrite(deflated, TurtleName, TurtleText),
              LAMBDA dumped :
         With(SegmentFlush(dumped, TurtleName), LAMBDA stored :
         With(write_zip64_CD(stored), LAMBDA directory :
           [directory EXCEPT !.zip.dirty = FALSE]))))))
    ELSE w

\* AFF4ObjectCache.Flush when the resolver closes: the volume, returned
\* last, is flushed first, then the segments that are still dirty; every
\* object leaves the cache.
CloseEffect(w) ==
    With(ZipFlushEffect(w), LAMBDA volume_flushed :
    With(SegmentFlush(volume_flushed, SegmentName), LAMBDA user :
    With(SegmentFlush(user, TurtleName), LAMBDA turtle :
      [turtle EXCEPT !.segments = [n \in SEGMENTS |-> NoSegment],
                     !.file_stream = NoStream])))

\* The index of the last cell of bytes that starts with the magic of the
\* EndCentralDirectory, or 0.
FindEndCentralDirectory(bytes) ==
    LET found == {i \in 1..Len(bytes) : bytes[i][1] = "EndCentralDirectory"}
    IN IF found = {} THEN 0
       ELSE CHOOSE i \in found : \A j \in found : j <= i

\* The zip_info of the directory entries from the offset entry_offset on.
RECURSIVE ParseEntries(_, _, _, _)
ParseEntries(bytes, entry_offset, global_offset, n) ==
    IF n = 0 THEN << >>
    ELSE
      LET at == entry_offset + global_offset
          extra == bytes[at + 3]
          zip_info == ZipInfo(bytes[at + 1][2], extra[3], extra[2],
                              bytes[at + 2][2], extra[4], bytes[at + 1][3])
      IN <<zip_info>>
           \o ParseEntries(bytes, entry_offset + 3, global_offset, n - 1)

\* ZipFile.parse_cd on a backing file that holds bytes: the members of the
\* last central directory, by member name, and the global offset.
parse_cd(bytes) ==
    With(FindEndCentralDirectory(bytes), LAMBDA ecd :
       IF ecd = 0 \/ ecd < 3
          \/ bytes[ecd - 1][1] # "Zip64CDLocator"
          \/ bytes[ecd - 2][1] # "Zip64EndCD"
       THEN [raised |-> TRUE, members |-> << >>, global_offset |-> 0]
       ELSE
         LET locator_real_offset == ecd - 2
             end_cd == bytes[ecd - 2]
             directory_offset == end_cd[5]
             global_offset == locator_real_offset - 1 - end_cd[4]
                                - directory_offset
         IN With(ParseEntries(bytes, directory_offset, global_offset,
                              end_cd[2]), LAMBDA entries :
            IF \E i \in 0..(end_cd[2] - 1) :
                  bytes[directory_offset + global_offset + 3 * i + 1][1]
                     # "CDFileHeader"
            THEN [raised |-> TRUE, members |-> << >>, global_offset |-> 0]
            ELSE
            [raised |-> FALSE,
             members |->
                [key \in {member_name_for_urn(entries[i].filename) :
                            i \in 1..Len(entries)} |->
                   LET last == CHOOSE i \in 1..Len(entries) :
                          /\ member_name_for_urn(entries[i].filename) = key
                          /\ \A j \in 1..Len(entries) :
                               member_name_for_urn(entries[j].filename) = key
                                  => j <= i
                   IN entries[last]],
             global_offset |-> global_offset]))

\* ZipFileSegment.LoadFromZipFile and Read(1000) in a resolver that parsed
\* the volume from bytes: the content of the member, or IOError.
ReadMember(bytes, name) ==
    With(parse_cd(bytes), LAMBDA cd :
    LET key == member_name_for_urn(name)
    IN IF cd.raised \/ key \notin DOMAIN cd.members
       THEN [raised |-> TRUE, data |-> << >>]
       ELSE
         LET zip_info == cd.members[key]
             at == zip_info.local_header_offset + cd.global_offset
             file_header == bytes[at + 1]
             start == at + 2 + file_header[7]
         IN IF file_header[1] # "ZipFileHeader"
               \/ bytes[at + 2] # <<"filename", zip_info.filename>>
            THEN [raised |-> TRUE, data |-> << >>]
            ELSE IF file_header[6] = ZIP_DEFLATE
            THEN LET c_buffer == SubSeq(bytes, start + 1,
                                        start + zip_info.compress_size)
                     decomp_buffer == DecompressBuffer(c_buffer)
                 IN IF decomp_buffer.failed
                       \/ Len(decomp_buffer.data) # zip_info.file_size
                    THEN [raised |-> TRUE, data |-> << >>]
                    ELSE [raised |-> FALSE, data |-> decomp_buffer.data]
            ELSE [raised |-> FALSE,
                  data |-> Uncells(SubSeq(bytes, start + 1,
                                          start + zip_info.file_size))])

\* The state takes the value of w.
Becomes(w) ==
    /\ disk' = w.disk
    /\ write_mode' = w.write_mode
    /\ file_stream' = w.file_stream
    /\ truncated' = w.truncated
    /\ zip' = w.zip
    /\ segments' = w.segments

\* with zip_file.CreateMember(segment_urn) as segment: the segment takes
\* the compression method, seeks to its end when the caller asks for it, and
\* is written to.
CreateMemberWrite(name, compression_method, seek_end, data) ==
    LET created == CreateZipSegment(World, name)
        set == [created EXCEPT
                  !.segments[name].compression_method = compression_method]
        sought == IF seek_end THEN SegmentSeekEnd(set, name) ELSE set
    IN /\ \E w \in {With(sought, LAMBDA segment :
                          SegmentWrite(segment, name, data))} : Becomes(w)
       /\ member_data' = member_data \o data
       /\ zip_result' = << >>
       /\ UNCHANGED <<zip_pc, file_result, stream_test>>
       /\ UNCHANGED <<cacheVars, script, scopeVars, flushVars, mapVars,
                      imageVars, resolverVars, copyVars>>

\* AFF4ObjectCache._Trim on the entry of a segment: the segment is flushed
\* and leaves the cache.
SegmentTrim(name) ==
    /\ segments[name].cached
    /\ \E w \in {[SegmentFlush(World, name) EXCEPT
                      !.segments[name] = NoSegment]} : Becomes(w)
    /\ zip_result' = << >>
    /\ UNCHANGED <<zip_pc, member_data, file_result, stream_test>>
    /\ UNCHANGED <<cacheVars, script, scopeVars, flushVars, mapVars,
                   imageVars, resolverVars, copyVars>>

\* AFF4ObjectCache._Trim on the entry of the backing file.
BackingTrim ==
    /\ file_stream.open
    /\ Becomes([World EXCEPT !.file_stream = NoStream])
    /\ zip_result' = << >>
    /\ UNCHANGED <<zip_pc, member_data, file_result, stream_test>>
    /\ UNCHANGED <<cacheVars, script, scopeVars, flushVars, mapVars,
                   imageVars, resolverVars, copyVars>>

\* zip_file.Flush()
ZipFlush ==
    /\ \E w \in {ZipFlushEffect(World)} : Becomes(w)
    /\ zip_result' = << >>
    /\ UNCHANGED <<zip_pc, member_data, file_result, stream_test>>
    /\ UNCHANGED <<cacheVars, script, scopeVars, flushVars, mapVars,
                   imageVars, resolverVars, copyVars>>

\* MemoryDataStore.__exit__
ZipClose ==
    /\ \E w \in {CloseEffect(World)} : Becomes(w)
    /\ zip_pc' = "closed"
    /\ zip_result' = << >>
    /\ UNCHANGED <<member_data, file_result, stream_test>>
    /\ UNCHANGED <<cacheVars, script, scopeVars, flushVars, mapVars,
                   imageVars, resolverVars, copyVars>>

\* testOpenSegmentByURN: a fresh resolver parses the volume and reads the
\* member.
ZipReopen ==
    /\ zip_pc' = "reopened"
    /\ \E r \in {ReadMember(disk.bytes, SegmentName)} :
         zip_result' = IF r.raised THEN <<"IOError">> ELSE r.data
    /\ UNCHANGED <<disk, write_mode, file_stream, truncated, zip,
                   segments, member_data, file_result, stream_test>>
    /\ UNCHANGED <<cacheVars, script, scopeVars, flushVars, mapVars,
                   imageVars, resolverVars, copyVars>>

\* The strings of ZipTest.
data1 ==
    <<"I", " ", "a", "m", " ", "a", " ", "s", "e", "g", "m", "e", "n", "t",
      "!">>

data2 ==
    <<"I", " ", "a", "m", " ", "a", "n", "o", "t", "h", "e", "r", " ", "s",
      "e", "g", "m", "e", "n", "t", "!">>

\* The strings the other callers write to a member.
MEMBER_DATA == {<<"a">>, <<"b">>}

-----------------------------------------------------------------------------
(* MemoryDataStore: Set, Add and Get (data_store.py) *)

\* The most values the callers give to one subject and attribute.
MaxStored == 2

\* posixpath.normpath on the components of the absolute path of a URN, as
\* URN._Parse applies it: empty and "." components go, ".." takes the
\* component before it, and nothing at the root.
RECURSIVE normpath(_, _)
normpath(comps, new_comps) ==
    IF comps = << >> THEN new_comps
    ELSE LET comp == Head(comps)
         IN IF comp \in {"", "."} THEN normpath(Tail(comps), new_comps)
            ELSE IF comp = ".."
            THEN normpath(Tail(comps),
                          IF new_comps = << >> THEN new_comps
                          ELSE SubSeq(new_comps, 1, Len(new_comps) - 1))
            ELSE normpath(Tail(comps), Append(new_comps, comp))

\* rdfvalue.URN(subject).SerializeToString() of the subject whose path has
\* the components path; the URN of the tests, aff4://hello, has none.
SerializeToString(path) == normpath(path, << >>)

\* The subjects the callers name, some of them one URN spelled in several
\* ways, the attributes and the values.
SUBJECTS == {<< >>, <<"a", ".">>, <<"b", "..", "a">>}
ATTRIBUTES == {"compressionMethod", "type"}
VALUES == {"foo", "bar"}

\* A slot of the store: no entry, one value, or a list of values.
NoValue == [kind |-> "None", values |-> << >>]
Single(value) == [kind |-> "value", values |-> <<value>>]
List(values) == [kind |-> "list", values |-> values]

\* self.store.get(subject, {}).get(attribute)
Slot(st, subject, attribute) ==
    IF <<subject, attribute>> \in DOMAIN st THEN st[<<subject, attribute>>]
    ELSE NoValue

\* An Add that replaces the single value the slot holds.
StoreAddEffect_Replace(st, subject, attribute, value) ==
    LET key == SerializeToString(subject)
        oldvalue == Slot(st, key, attribute)
    IN IF oldvalue.kind = "None"
       THEN DictSet(st, <<key, attribute>>, Single(value))
       ELSE IF oldvalue.kind # "list"
       THEN DictSet(st, <<key, attribute>>, Single(value))
       ELSE DictSet(st, <<key, attribute>>,
                    List(Append(oldvalue.values, value)))

\* MemoryDataStore.Add
StoreAddEffect(st, subject, attribute, value) ==
    LET key == SerializeToString(subject)
        oldvalue == Slot(st, key, attribute)
    IN IF oldvalue.kind = "None"
       THEN DictSet(st, <<key, attribute>>, Single(value))
       ELSE IF oldvalue.kind # "list"
       THEN DictSet(st, <<key, attribute>>,
                    List(<<oldvalue.values[1], value>>))
       ELSE DictSet(st, <<key, attribute>>,
                    List(Append(oldvalue.values, value)))

\* MemoryDataStore.Set
StoreSetEffect(st, subject, attribute, value) ==
    DictSet(st, <<SerializeToString(subject), attribute>>, Single(value))

\* MemoryDataStore.Get
StoreGetEffect(st, subject, attribute) ==
    Slot(st, SerializeToString(subject), attribute)

\* The values given under the subject and attribute since the last Set.
Inserted(subject, attribute) ==
    IF <<subject, attribute>> \in DOMAIN inserted
    THEN inserted[<<subject, attribute>>] ELSE << >>

\* store.Set(subject, attribute, value)
StoreSet(subject, attribute, value) ==
    /\ store' = StoreSetEffect(store, subject, attribute, value)
    /\ inserted' = DictSet(inserted,
                           <<SerializeToString(subject), attribute>>,
                           <<value>>)
    /\ store_result' = <<"Set">>
    /\ UNCHANGED ObjectCache
    /\ UNCHANGED <<cacheVars, script, scopeVars, flushVars, mapVars,
                   imageVars, fileVars, zipVars, copyVars>>

\* store.Add(subject, attribute, value)
StoreAdd(subject, attribute, value) ==
    /\ store' = StoreAddEffect(store, subject, attribute, value)
    /\ inserted' = DictSet(inserted,
                           <<SerializeToString(subject), attribute>>,
                           Append(Inserted(SerializeToString(subject),
                                           attribute), value))
    /\ store_result' = <<"Add">>
    /\ UNCHANGED ObjectCache
    /\ UNCHANGED <<cacheVars, script, scopeVars, flushVars, mapVars,
                   imageVars, fileVars, zipVars, copyVars>>

\* store.Get(subject, attribute)
StoreGet(subject, attribute) ==
    /\ store_result' = <<"Get", SerializeToString(subject), attribute,
                         StoreGetEffect(store, subject, attribute)>>
    /\ UNCHANGED <<store, inserted, ObjectCache>>
    /\ UNCHANGED <<cacheVars, script, scopeVars, flushVars, mapVars,
                   imageVars, fileVars, zipVars, copyVars>>

\* lexicon.AFF4_TYPE, as the store names the attribute.
AFF4_TYPE == "type"

\* lexicon.standard.base, the text of a URN after its scheme.
Base == "//aff4.org/Schema#"

\* URNs are the scheme followed by the pieces of the rest of their text.
\* The URNs the callers open: symbolic streams, a stream of a volume and a
\* file.
ZeroURN == <<"http", Base, "Zero">>
NoDataURN == <<"http", Base, "NoData">>
SymbolicURN == <<"http", Base, "SymbolicStream", "F", "F">>
ShortSymbolicURN == <<"http", Base, "SymbolicStream", "F">>
StreamURN == <<"aff4", "//volume", "stream">>
FileURN == <<"file", "///tmp", "f">>
FACTORY_URNS ==
    {ZeroURN, NoDataURN, SymbolicURN, ShortSymbolicURN, StreamURN, FileURN}

\* The URNs the callers store a type for.
TYPED_URNS == {ZeroURN, StreamURN, FileURN}

\* The types the callers store: two that have a handler and one that has
\* none.
RDF_TYPES == {"Map", "ImageStream", "Unregistered"}

\* registry.AFF4_TYPE_MAP after the modules are imported: the class or
\* function registered under a type or a scheme.
AFF4_TYPE_MAP ==
    [k \in {"Map", "ImageStream", "file"} |->
        CASE k = "Map" -> "AFF4Map"
          [] k = "ImageStream" -> "AFF4SImage"
          [] k = "file" -> "GenericFileHandler"]

\* StreamFactory.fixedSymbolics of the standard lexicon.
fixedSymbolics ==
    {<<"http", Base, name>> :
        name \in {"Zero", "UnknownData", "UnreadableData", "NoData"}}

\* str.startswith
startswith(text, prefix) ==
    Len(text) >= Len(prefix) /\ SubSeq(text, 1, Len(prefix)) = prefix

\* The digits binascii.unhexlify accepts.
HexDigits ==
    {"0", "1", "2", "3", "4", "5", "6", "7", "8", "9",
     "A", "B", "C", "D", "E", "F"}

\* StdStreamFactory.isSymbolicStream
isSymbolicStream(urn) ==
    IF Head(urn) # "http" THEN FALSE
    ELSE \/ urn \in fixedSymbolics
         \/ startswith(urn, <<"http", Base, "SymbolicStream">>)

\* What AFF4FactoryOpen comes to: an object of a class, or an exception.
Object(handler) == [raised |-> "", handler |-> handler]
Raised(exception) == [raised |-> exception, handler |-> ""]

\* StdStreamFactory.createSymbolic
createSymbolic(urn) ==
    LET prefix == <<"http", Base, "SymbolicStream">>
    IN IF urn = <<"http", Base, "Zero">> THEN Object("RepeatedStream")
       ELSE IF urn = <<"http", Base, "UnknownData">>
       THEN Object("RepeatedStringStream")
       ELSE IF urn = <<"http", Base, "UnreadableData">>
       THEN Object("RepeatedStringStream")
       ELSE IF startswith(urn, prefix) /\ Len(urn) = Len(prefix) + 2
       THEN IF \A i \in (Len(prefix) + 1)..Len(urn) : urn[i] \in HexDigits
            THEN Object("RepeatedStream")
            ELSE Raised("binascii.Error")
       ELSE Raised("ValueError")

\* The loop of AFF4FactoryOpen over the types stored as a list: the
\* handler of the first type of the list that is registered, or none.
RECURSIVE FirstHandler(_)
FirstHandler(uri_types) ==
    IF uri_types = << >> THEN ""
    ELSE IF Head(uri_types) \in DOMAIN AFF4_TYPE_MAP
    THEN AFF4_TYPE_MAP[Head(uri_types)]
    ELSE FirstHandler(Tail(uri_types))

\* AFF4FactoryOpen when the object is not cached: the symbolic stream, or
\* the handler of the stored type, or that of the scheme, or IOError.
FactoryHandler(st, urn) ==
    IF isSymbolicStream(urn) THEN createSymbolic(urn)
    ELSE
      LET uri_types == StoreGetEffect(st, urn, AFF4_TYPE)
          by_type ==
            IF uri_types.kind = "list" THEN FirstHandler(uri_types.values)
            ELSE IF uri_types.kind = "value"
                    /\ uri_types.values[1] \in DOMAIN AFF4_TYPE_MAP
            THEN AFF4_TYPE_MAP[uri_types.values[1]]
            ELSE ""
          handler ==
            IF by_type # "" THEN by_type
            ELSE IF Head(urn) \in DOMAIN AFF4_TYPE_MAP
            THEN AFF4_TYPE_MAP[Head(urn)]
            ELSE ""
      IN IF handler = "" THEN Raised("IOError") ELSE Object(handler)

\* The body of MemoryDataStore.AFF4FactoryOpen: the cached object, or a new
\* one, which is put into the cache.
FactoryOpenEffect(st, cache, urn) ==
    LET key == SerializeToString(urn)
    IN IF key \in DOMAIN cache
       THEN [result |-> Object(cache[key]), cache |-> cache]
       ELSE LET r == FactoryHandler(st, urn)
            IN [result |-> r,
                cache |-> IF r.raised = "" THEN DictSet(cache, key, r.handler)
                          ELSE cache]

\* resolver.AFF4FactoryOpen(urn)
FactoryOpen(urn) ==
    /\ ObjectCache' = FactoryOpenEffect(store, ObjectCache, urn).cache
    /\ store_result' = <<"Open", SerializeToString(urn),
                         FactoryOpenEffect(store, ObjectCache, urn).result>>
    /\ UNCHANGED <<store, inserted>>
    /\ UNCHANGED <<cacheVars, script, scopeVars, flushVars, mapVars,
                   imageVars, fileVars, zipVars, copyVars>>

\* resolver.Close(obj): the object leaves the cache.
FactoryClose(urn) ==
    /\ SerializeToString(urn) \in DOMAIN ObjectCache
    /\ ObjectCache' = DictPop(ObjectCache, SerializeToString(urn))
    /\ store_result' = <<"Close">>
    /\ UNCHANGED <<store, inserted>>
    /\ UNCHANGED <<cacheVars, script, scopeVars, flushVars, mapVars,
                   imageVars, fileVars, zipVars, copyVars>>

\* The most reads the source of a copy answers with data.
MaxReads == 3

\* What one read of the source of a copy returns.
PIECES == {<<"a">>, <<"b", "c">>}

\* The sources of the copies: what their reads return, in order, before
\* the read that returns nothing.
RECURSIVE SourcesOf(_)
SourcesOf(n) ==
    IF n = 0 THEN {<< >>}
    ELSE SourcesOf(n - 1)
         \cup {Append(s, piece) : s \in SourcesOf(n - 1), piece \in PIECES}

COPY_SOURCES == SourcesOf(MaxReads)

\* The local file header WriteFileHeader writes for the member: its
\* file_size and compress_size.
MemberHeader(file_size, compress_size) ==
    <<"header", file_size, compress_size>>

\* compressor.compress(data) and compressor.flush(): the compressor of the
\* model gives the data out at once and ends the stream with one cell.
Deflated(data) == [i \in 1..Len(data) |-> <<"z", data[i], 0>>]
DeflateEnd == <<<<"end", "", 0>>>>
Stored(data) == [i \in 1..Len(data) |-> <<"s", data[i], 0>>]

\* No copy is running.
NoCopy ==
    [pc |-> "idle", progress |-> "", compression_method |-> ZIP_STORED,
     source |-> << >>, file_size |-> 0, compress_size |-> 0,
     out |-> << >>, member |-> FALSE, last_offset |-> 0]

\* A Report that does not look at the flag.
Report_NoPoll(progress, flag) == FALSE

\* ProgressContext.Report and EmptyProgressContext.Report: the call raises
\* RuntimeError("Aborted").
Report(progress, flag) == progress = "ProgressContext" /\ flag

\* ZipFile.StreamAddMember up to its loop: the progress context (the empty
\* one when none is given), the seek to the end of the backing store and
\* the file header with the sizes still 0.
StreamAddMemberBegin(source, compression_method, progress) ==
    /\ copy.pc # "copying"
    /\ copy' = [NoCopy EXCEPT
                  !.pc = "copying",
                  !.progress = IF progress = "None"
                               THEN "EmptyProgressContext" ELSE progress,
                  !.compression_method = compression_method,
                  !.source = source,
                  !.out = <<MemberHeader(0, 0)>>]
    /\ UNCHANGED aff4_abort_signaled
    /\ UNCHANGED <<cacheVars, script, scopeVars, flushVars, mapVars,
                   imageVars, fileVars, zipVars, resolverVars>>

\* One pass of the loop of StreamAddMember: a read of the source; on data,
\* the sizes, the Report and the Write (the Write first when deflating);
\* on no data, the end of the compressed stream, the header rewritten with
\* the sizes and the member entered in self.members. A Report that raises
\* ends the call. now tells whether ProgressContext.Report finds a quarter
\* of a second gone and prints.
StreamAddMemberLoop(now) ==
    /\ copy.pc = "copying"
    /\ IF copy.source = << >>
       THEN LET c_data == IF copy.compression_method = ZIP_DEFLATE
                          THEN DeflateEnd ELSE << >>
                compress_size == copy.compress_size + Len(c_data)
            IN copy' = [copy EXCEPT
                          !.pc = "done",
                          !.compress_size = compress_size,
                          !.out = <<MemberHeader(copy.file_size,
                                                 compress_size)>>
                                  \o Tail(copy.out) \o c_data,
                          !.member = TRUE]
       ELSE LET data == Head(copy.source)
                deflating == copy.compression_method = ZIP_DEFLATE
                c_data == IF deflating THEN Deflated(data) ELSE Stored(data)
                file_size == copy.file_size + Len(data)
                raised == Report(copy.progress, aff4_abort_signaled)
                read == [copy EXCEPT
                           !.source = Tail(@),
                           !.file_size = file_size,
                           !.compress_size = @ + Len(c_data),
                           !.last_offset =
                              IF copy.progress = "ProgressContext" /\ now
                              THEN file_size ELSE @]
            IN copy' = [read EXCEPT
                          !.pc = IF raised THEN "aborted" ELSE @,
                          !.out = IF raised /\ ~deflating THEN @
                                  ELSE @ \o c_data]
    /\ UNCHANGED aff4_abort_signaled
    /\ UNCHANGED <<cacheVars, script, scopeVars, flushVars, mapVars,
                   imageVars, fileVars, zipVars, resolverVars>>

\* The caller of the library sets aff4.aff4_abort_signaled, from a signal
\* handler or another thread.
SetAbort ==
    /\ ~aff4_abort_signaled
    /\ aff4_abort_signaled' = TRUE
    /\ UNCHANGED copy
    /\ UNCHANGED <<cacheVars, script, scopeVars, flushVars, mapVars,
                   imageVars, fileVars, zipVars, resolverVars>>

\* aff4.py as imported: the flag is not set, and no copy is running.
InitCopy ==
    /\ aff4_abort_signaled = FALSE
    /\ copy = NoCopy

\* A new MemoryDataStore: self.store is empty.
InitStore ==
    /\ store = << >>
    /\ inserted = << >>
    /\ store_result = << >>
    /\ ObjectCache = << >>

\* No volume.
InitVolume ==
    /\ zip = [members |-> << >>, children |-> {}, dirty |-> FALSE]
    /\ segments = [n \in SEGMENTS |-> NoSegment]
    /\ member_data = << >>
    /\ zip_pc = "new"
    /\ zip_result = << >>

\* No file stream: the file is missing and the resolver holds no mode.
InitStorage ==
    /\ disk = [exists |-> FALSE, bytes |-> << >>]
    /\ write_mode = "none"
    /\ file_stream = NoStream
    /\ file_result = << >>
    /\ stream_test = 0
    /\ truncated = 0
    /\ InitVolume
    /\ InitStore
    /\ InitCopy


\* The state after AFF4Image.NewAFF4Image and the caller's choice of the
\* chunk size, the chunks per segment and the compression.
InitImage(chunk_size, chunks_per_segment, compression) ==
    /\ image = [ImageLoadFromURN(<< >>) EXCEPT
                  !.chunk_size = chunk_size,
                  !.chunks_per_segment = chunks_per_segment,
                  !.compression = compression]
    /\ image_pc = "new"
    /\ volume = [bevies |-> << >>, indexes |-> << >>, meta |-> << >>,
                 members |-> << >>]
    /\ image_result = << >>
    /\ written = << >>

\* The state after the construction of a cache of capacity cap and of an
\* empty map, in a resolver that holds the streams strs.
InitResolver(cap, strs) ==
    /\ max_items = cap
    /\ in_use = << >>
    /\ lru_map = {}
    /\ lru_list = << >>
    /\ dirty = [k \in URNS |-> FALSE]
    /\ result = "ok"
    /\ script = 0
    /\ scopes = << >>
    /\ exc = FALSE
    /\ flush_pc = "idle"
    /\ it = 0
    /\ dirty_objects_found = FALSE
    /\ redirtied = 0
    /\ tree = {}
    /\ targets = << >>
    /\ target_idx_map = << >>
    /\ map_result = "ok"
    /\ last_target = NoTarget
    /\ readptr = 0
    /\ map_dirty = FALSE
    /\ loaded = 0
    /\ streams = strs
    /\ read_result = << >>
    /\ map_segment = << >>
    /\ idx_segment = << >>

\* The same, with a new image of the default geometry.
InitStreams(cap, strs) ==
    /\ InitStorage
    /\ InitResolver(cap, strs)
    /\ InitImage(DefaultChunkSize, DefaultChunksPerSegment, ZLIB)

\* The state after the construction of a cache of capacity cap and of an
\* empty map.
InitWith(cap) == InitStreams(cap, << >>)

Init == \E cap \in 1..MaxItems : InitWith(cap)

Next ==
    \/ \E key \in KEYS, s \in BOOLEAN, d \in BOOLEAN : Put(key, s, d)
    \/ \E key \in KEYS : Get(key)
    \/ \E key \in KEYS : Return(key)
    \/ \E key \in KEYS : Remove(key)
    \/ \E key \in KEYS : MarkDirty(key)
    \/ FlushBegin
    \/ FlushVisit
    \/ FlushPassEnd

Spec == Init /\ [][Next]_vars

\* The callers that hold objects in with-blocks.
NextScoped ==
    \/ \E key \in KEYS, handler \in BOOLEAN : AFF4FactoryOpen(key, handler)
    \/ \E exc_type \in BOOLEAN : __exit__(exc_type)
    \/ Raise
    \/ Catch
    \/ \E key \in KEYS : Remove(key)
    \/ \E key \in KEYS : MarkDirty(key)
    \/ FlushBegin
    \/ FlushVisit
    \/ FlushPassEnd

SpecScoped == Init /\ [][NextScoped]_vars

\* The calls testLRU makes, on its cache of capacity 3.
InitTest == InitWith(TestCapacity)

NextTest ==
    \/ \E key \in URNS : Put(key, FALSE, FALSE)
    \/ \E key \in URNS : Get(key)
    \/ \E key \in URNS : Return(key)
    \/ \E key \in URNS : Remove(key)

SpecTest == InitTest /\ [][NextTest]_vars

\* The callers of a map.
NextMap ==
    \/ \E map_offset \in 0..MaxOffset, target_offset \in 0..MaxOffset,
          length \in 0..MaxLength, target \in TARGETS :
          /\ Cardinality(tree) <= MaxIntervals
          /\ AddRange(map_offset, target_offset, length, target)
    \/ Clear

\* A map lives in a resolver whose cache has the largest capacity.
InitMap == InitWith(MaxItems)

SpecMap == InitMap /\ [][NextMap]_vars

\* The AddRange calls of testAddRange, made in any order on a map that
\* Clear empties.
NextMapTest ==
    \/ \E call \in testAddRange :
          AddRange(call[1], call[2], call[3], call[4])
    \/ Clear

SpecMapTest == InitMap /\ [][NextMapTest]_vars

\* The callers that read and write through a map.
NextMapIO ==
    \/ \E offset \in 0..MaxSeek : Seek(offset)
    \/ \E data \in DATA :
          /\ Cardinality(tree) <= MaxIntervals
          /\ Len(WithBackingStream[GetBackingStream]) + Len(data) <= MaxStream
          /\ Write(data)
    \/ \E length \in 0..MaxRead : Read(length)
    \/ \E source \in DATA :
          /\ Cardinality(tree) <= MaxIntervals
          /\ Len(WithBackingStream[GetBackingStream]) + Len(source)
                <= MaxStream
          /\ WriteStream(source)

SpecMapIO == InitMap /\ [][NextMapIO]_vars

\* The callers that map ranges onto a filled memory stream and onto a
\* stream that cannot be opened, as setUp does for its helper map, and read
\* through the map.
InitMapRead == InitStreams(MaxItems, DictSet(<< >>, SourceURN, SourceData))

NextMapRead ==
    \/ \E map_offset \in 0..MaxSeek, target_offset \in SourceOffsets,
          length \in SourceLengths, target \in {SourceURN, Unreachable} :
          /\ Cardinality(tree) < MaxIntervals
          /\ AddRange(map_offset, target_offset, length, target)
    \/ \E offset \in 0..MaxSeek : Seek(offset)
    \/ \E length \in 0..MaxRead : Read(length)

SpecMapRead == InitMapRead /\ [][NextMapRead]_vars

\* The backing stream holds the string data.
Written(data) ==
    /\ DataURN \in DOMAIN streams
    /\ \E k \in 0..Len(streams[DataURN]) :
          /\ k + Len(data) <= Len(streams[DataURN])
          /\ SubSeq(streams[DataURN], k + 1, k + Len(data)) = data

\* The calls of setUp and CheckImageURN of the map test, in any order, each
\* string written once.
NextMapIOTest ==
    \/ \E offset \in {0, 48, 50} : Seek(offset)
    \/ \E data \in {XX_position, OO_position, Fifty} :
          /\ ~Written(data)
          /\ Write(data)
    \/ \E length \in {2, 4} : Read(length)

SpecMapIOTest == InitMap /\ [][NextMapIOTest]_vars

\* The map offsets and the lengths of the ranges of the stored maps.
StoreOffsets == {0, 2}
StoreLengths == {1, 2}

\* A resolver in which the targets of the stored maps can be opened.
InitMapStore ==
    InitStreams(MaxItems, [target \in TARGETS |-> << >>])

\* The callers that build a map, store it and load it in a fresh resolver.
NextMapStore ==
    \/ \E map_offset \in StoreOffsets, length \in StoreLengths,
          target \in TARGETS :
          /\ Cardinality(tree) < MaxIntervals
          /\ AddRange(map_offset, 0, length, target)
    \/ MapFlush
    \/ LoadFromURN

SpecMapStore == InitMapStore /\ [][NextMapStore]_vars

\* The geometry aff4image_test.setUp gives its image.
TestImage(img) ==
    img.chunk_size = TestChunkSize
    /\ img.chunks_per_segment = TestChunksPerSegment

\* New images of every small geometry and compression, and the image of
\* aff4image_test.setUp.
InitImages ==
    /\ InitResolver(MaxItems, << >>)
    /\ InitStorage
    /\ \/ \E chunk_size \in 1..MaxChunk,
             chunks_per_segment \in 1..MaxSegment,
             compression \in {ZLIB, STORED} :
             InitImage(chunk_size, chunks_per_segment, compression)
       \/ InitImage(TestChunkSize, TestChunksPerSegment, ZLIB)

\* The callers that fill a new image, by Writes or by one WriteStream,
\* flush it when its resolver closes, open it in a fresh resolver and read
\* it. On the image of the test the
\* writes are those of setUp and the read that of testOpenImageByURN.
NextImage ==
    \/ \E data \in IMAGE_DATA :
          /\ image_pc = "new" /\ volume.meta = << >>
          /\ ~TestImage(image)
          /\ Len(written) + Len(data) <= MaxImage
          /\ ImageWrite(data)
    \/ /\ image_pc = "new" /\ volume.meta = << >>
       /\ TestImage(image)
       /\ Len(written) < TestWrites * Len(HelloWorld(0))
       /\ ImageWrite(HelloWorld(Len(written) \div Len(HelloWorld(0))))
    \/ \E source \in IMAGE_SOURCES :
          /\ image_pc = "new" /\ volume.meta = << >>
          /\ written = << >> /\ ~image.dirty
          /\ ~TestImage(image)
          /\ ImageWriteStream(source)
    \/ /\ image_pc = "new" /\ volume.meta = << >>
       /\ written = << >>
       /\ TestImage(image)
       /\ ImageWriteStream(TestSource)
    \/ /\ image_pc = "new"
       /\ TestImage(image) => Len(written) = TestWrites * Len(HelloWorld(0))
       /\ ImageFlush
    \/ /\ image_pc = "new" /\ ~image.dirty
       /\ ImageOpen
    \/ \E length \in (0..MaxImageRead) \cup {TestRead} :
          /\ image_pc = "reopened"
          /\ ImageRead(length)

SpecImage == InitImages /\ [][NextImage]_vars

\* The most bevies the callers that write after a Flush store.
MaxBevies == 3

\* A new image of a small geometry, not yet written.
InitImagesSmall ==
    /\ InitResolver(MaxItems, << >>)
    /\ InitStorage
    /\ \E chunk_size \in 1..MaxChunk, chunks_per_segment \in 1..MaxSegment,
          compression \in {ZLIB, STORED} :
          InitImage(chunk_size, chunks_per_segment, compression)

\* The callers that write to an image and flush it in any order, also
\* writing again after a Flush, then open it in a fresh resolver and read it.
NextImageFlushes ==
    \/ \E data \in IMAGE_DATA :
          /\ image_pc = "new"
          /\ Len(written) + Len(data) <= MaxImage
          /\ Cardinality(DOMAIN volume.bevies) < MaxBevies
          /\ ImageWrite(data)
    \/ /\ image_pc = "new"
       /\ Cardinality(DOMAIN volume.bevies) < MaxBevies
       /\ ImageFlush
    \/ /\ image_pc = "new" /\ ~image.dirty
       /\ ImageOpen
    \/ \E length \in 0..MaxImageRead :
          /\ image_pc = "reopened"
          /\ ImageRead(length)

SpecImageFlushes == InitImagesSmall /\ [][NextImageFlushes]_vars

\* The files the callers find on the file system.
FILES == {[exists |-> FALSE, bytes |-> << >>],
          [exists |-> TRUE, bytes |-> << >>],
          [exists |-> TRUE, bytes |-> <<"x", "y">>]}

\* A resolver that holds a write mode for the URN of a file, or none, and,
\* for testFileBackedStream, the mode truncate for a file that may exist.
InitFiles ==
    /\ InitResolver(MaxItems, << >>)
    /\ InitImage(DefaultChunkSize, DefaultChunksPerSegment, ZLIB)
    /\ disk \in FILES
    /\ file_stream = NoStream
    /\ file_result = << >>
    /\ truncated = 0
    /\ InitVolume
    /\ InitStore
    /\ InitCopy
    /\ \/ write_mode \in {"truncate", "append", "none"} /\ stream_test = 0
       \/ write_mode = "truncate" /\ stream_test = 1

\* The callers of a file stream: they open it, write, seek, read and ask
\* its size, and the cache may trim it between two uses; or they are
\* testFileBackedStream.
NextFile ==
    \/ stream_test = 0 /\ FileOpen /\ UNCHANGED stream_test
    \/ \E data \in FILE_DATA :
          /\ stream_test = 0
          /\ file_stream.open
          /\ file_stream.readptr + Len(data) <= MaxFile
          /\ Len(disk.bytes) + Len(data) <= MaxFile
          /\ FileWrite(data)
          /\ UNCHANGED stream_test
    \/ \E offset \in (0 - MaxSeek)..MaxSeek, whence \in 0..2 :
          /\ stream_test = 0
          /\ FileSeekEffect(file_stream, disk.bytes, offset,
                            whence).readptr <= MaxFile
          /\ FileSeek(offset, whence)
          /\ UNCHANGED stream_test
    \/ \E length \in 0..MaxRead :
          stream_test = 0 /\ FileRead(length) /\ UNCHANGED stream_test
    \/ stream_test = 0 /\ FileSize /\ UNCHANGED stream_test
    \/ stream_test = 0 /\ FileTrim /\ UNCHANGED stream_test
    \/ /\ stream_test = 1 /\ ~file_stream.open
       /\ FileOpen
       /\ UNCHANGED stream_test
    \/ /\ stream_test \in 1..Len(streamTest) /\ file_stream.open
       /\ LET call == streamTest[stream_test]
          IN \/ call.op = "Size" /\ FileSize
             \/ call.op = "Write" /\ FileWrite(call.data)
             \/ call.op = "Seek" /\ FileSeek(call.offset, call.whence)
             \/ call.op = "Read" /\ FileRead(call.length)
       /\ stream_test' = stream_test + 1

SpecFile == InitFiles /\ [][NextFile]_vars

\* The backing files the callers give to a new volume: none, or a file that
\* holds something that is no volume.
ZIP_FILES == {[exists |-> FALSE, bytes |-> << >>],
              [exists |-> TRUE, bytes |-> <<<<"D", "x">>>>]}

\* The state after ZipFile.NewZipFile on a backing file whose stored mode is
\* truncate or append: LoadFromURN opened the backing file and found no
\* central directory in it. ZipTest.setUp stores truncate.
InitZip ==
    /\ InitResolver(MaxItems, << >>)
    /\ InitImage(DefaultChunkSize, DefaultChunksPerSegment, ZLIB)
    /\ \E d \in ZIP_FILES, mode \in {"truncate", "append"} :
          LET r == FileLoadFromURN(d, mode)
          IN /\ disk = r.disk
             /\ write_mode = r.write_mode
             /\ file_stream = r.stream
             /\ truncated = IF mode = "truncate" THEN 1 ELSE 0
             /\ zip_pc \in IF mode = "truncate" THEN {"new", "test"}
                           ELSE {"new"}
    /\ file_result = << >>
    /\ stream_test = 0
    /\ zip = [members |-> << >>, children |-> {}, dirty |-> FALSE]
    /\ segments = [n \in SEGMENTS |-> NoSegment]
    /\ member_data = << >>
    /\ zip_result = << >>
    /\ InitStore
    /\ InitCopy

\* The callers of a volume: sessions that write to the member, the later
\* ones after a seek to the end of the segment, flushes of
\* the volume, the cache trimming a segment or the backing file between two
\* sessions, the close of the resolver and the read in a fresh resolver; or
\* they are ZipTest.
NextZip ==
    \/ \E data \in MEMBER_DATA, compression_method \in {ZIP_STORED, ZIP_DEFLATE},
          seek_end \in BOOLEAN :
          /\ zip_pc = "new"
          /\ member_data # << >> => seek_end
          /\ Len(member_data) + Len(data) <= MaxMember
          /\ CreateMemberWrite(SegmentName, compression_method, seek_end,
                               data)
    \/ /\ zip_pc = "test" /\ member_data = << >>
       /\ CreateMemberWrite(SegmentName, ZIP_STORED, FALSE, data1)
    \/ /\ zip_pc = "test" /\ member_data = data1
       /\ CreateMemberWrite(SegmentName, ZIP_STORED, TRUE, data2)
    \/ \E name \in SEGMENTS :
          /\ zip_pc = "new"
          /\ Len(disk.bytes) <= MaxZipFile
          /\ SegmentTrim(name)
    \/ zip_pc = "new" /\ BackingTrim
    \/ zip_pc = "new" /\ Len(disk.bytes) <= MaxZipFile /\ ZipFlush
    \/ /\ zip_pc \in {"new", "test"}
       /\ zip_pc = "test" => member_data = data1 \o data2
       /\ ZipClose
    \/ zip_pc = "closed" /\ ZipReopen

SpecZip == InitZip /\ [][NextZip]_vars

\* The store of DataStoreTest after setUp, or a new one.
InitData ==
    /\ InitResolver(MaxItems, << >>)
    /\ InitImage(DefaultChunkSize, DefaultChunksPerSegment, ZLIB)
    /\ disk = [exists |-> FALSE, bytes |-> << >>]
    /\ write_mode = "none"
    /\ file_stream = NoStream
    /\ file_result = << >>
    /\ stream_test = 0
    /\ truncated = 0
    /\ InitVolume
    /\ store_result = << >>
    /\ ObjectCache = << >>
    /\ InitCopy
    /\ \/ store = << >> /\ inserted = << >>
       \/ /\ store = StoreSetEffect(
                         StoreSetEffect(<< >>, << >>, "compressionMethod",
                                        "foo"),
                         << >>, "type", "bar")
          /\ inserted = DictSet(DictSet(<< >>, <<<< >>, "compressionMethod">>,
                                        <<"foo">>),
                                <<<< >>, "type">>, <<"bar">>)

\* The callers of the store: Set, Add and Get on any subject and attribute.
NextStore ==
    \/ \E subject \in SUBJECTS, attribute \in ATTRIBUTES, value \in VALUES :
          StoreSet(subject, attribute, value)
    \/ \E subject \in SUBJECTS, attribute \in ATTRIBUTES, value \in VALUES :
          /\ Len(Inserted(SerializeToString(subject), attribute)) < MaxStored
          /\ StoreAdd(subject, attribute, value)
    \/ \E subject \in SUBJECTS, attribute \in ATTRIBUTES :
          StoreGet(subject, attribute)

SpecStore == InitData /\ [][NextStore]_vars

\* The most values the callers of the factory hold in the store.
MaxTypes == 3

\* The number of values the store holds.
StoredValues ==
    LET keys == DOMAIN store
        RECURSIVE Sum(_)
        Sum(ks) == IF ks = {} THEN 0
                   ELSE LET k == CHOOSE x \in ks : TRUE
                        IN Len(store[k].values) + Sum(ks \ {k})
    IN Sum(keys)

\* A new resolver: nothing stored, nothing opened.
InitFactory ==
    /\ InitResolver(MaxItems, << >>)
    /\ InitImage(DefaultChunkSize, DefaultChunksPerSegment, ZLIB)
    /\ InitStorage

\* The callers of the factory: they store types for URNs, open URNs and
\* close the objects.
NextFactory ==
    \/ \E urn \in TYPED_URNS, typ \in RDF_TYPES :
          /\ StoredValues - Len(StoreGetEffect(store, urn, AFF4_TYPE).values)
                < MaxTypes
          /\ StoreSet(urn, AFF4_TYPE, typ)
    \/ \E urn \in TYPED_URNS, typ \in RDF_TYPES :
          /\ StoredValues < MaxTypes
          /\ StoreAdd(urn, AFF4_TYPE, typ)
    \/ \E urn \in FACTORY_URNS : FactoryOpen(urn)
    \/ \E urn \in FACTORY_URNS : FactoryClose(urn)

SpecFactory == InitFactory /\ [][NextFactory]_vars

\* The callers that copy streams into a volume, one copy at a time, with a
\* ProgressContext, the EmptyProgressContext or none, and may set the
\* abort flag at any time.
NextCopy ==
    \/ \E source \in COPY_SOURCES,
          compression_method \in {ZIP_STORED, ZIP_DEFLATE},
          progress \in {"ProgressContext", "EmptyProgressContext", "None"} :
          StreamAddMemberBegin(source, compression_method, progress)
    \/ \E now \in BOOLEAN : StreamAddMemberLoop(now)
    \/ SetAbort

SpecCopy == InitFactory /\ [][NextCopy]_vars


\* The scheduling of the synchronous Flush loop: a started Flush keeps
\* running until it returns.
SpecLive == Spec /\ WF_vars(FlushVisit \/ FlushPassEnd)

----------------------------------------------------------------------------
(* Properties of the object cache *)

\* C1: no URN key is in both the in_use map and the LRU map.
C1_Disjoint == DOMAIN in_use \cap lru_map = {}

C1_Witness == DOMAIN in_use # {} /\ lru_map # {} /\ result = "obj"

\* C2: on a capacity-3 cache, after put(a); put(b); put(c); get(a);
\* return(a); put(d) the LRU keys are d, a, c in that order, most recently
\* inserted or returned first, and nothing is in use.
C2_testLRU ==
    (script = Len(testLRU) /\ max_items = TestCapacity)
        => (lru_list = <<"d", "a", "c">> /\ DOMAIN in_use = {})

C2_Witness == script = Len(testLRU) /\ max_items = TestCapacity /\ result = "put"

\* An insertion into the LRU by this step found it full.
Overflows ==
    /\ Cardinality(lru_map) = max_items
    /\ \/ \E key \in KEYS, d \in BOOLEAN :
            Put(key, FALSE, d) /\ key \notin DOMAIN in_use /\ key \notin lru_map
       \/ \E key \in KEYS :
            Return(key) /\ key \in DOMAIN in_use /\ in_use[key] = 1

\* C3: the LRU never holds more than capacity entries after a call, and an
\* insertion that overflows it unlinks and flushes the tail, which a Get
\* then no longer finds (it is in neither map).
C3_Eviction ==
    /\ [](Cardinality(lru_map) <= max_items /\ Len(lru_list) <= max_items)
    /\ [][Overflows =>
            LET tail == lru_list[Len(lru_list)]
            IN /\ tail \notin lru_map'
               /\ \A i \in 1..Len(lru_list') : lru_list'[i] # tail
               /\ tail \notin DOMAIN in_use'
               /\ ~dirty'[tail]
               /\ Cardinality(lru_map') = max_items]_vars

C3_Witness ==
    /\ script = 3 /\ max_items = 2
    /\ "a" \notin lru_map /\ "a" \notin DOMAIN in_use
    /\ lru_list = <<"c", "b">>

\* C4: Get of a URN held in the LRU takes it out of the LRU and enters it in
\* in_use with refcount 1; Get of a URN in in_use adds exactly one to its
\* refcount and leaves the LRU unchanged.
C4_Get ==
    [][\A key \in KEYS :
         /\ (Get(key) /\ key \in lru_map /\ key \notin DOMAIN in_use) =>
               /\ lru_map' = lru_map \ {key}
               /\ lru_list' = SelectSeq(lru_list, LAMBDA x : x # key)
               /\ key \in DOMAIN in_use' /\ in_use'[key] = 1
               /\ \A k \in DOMAIN in_use :
                     k \in DOMAIN in_use' /\ in_use'[k] = in_use[k]
         /\ (Get(key) /\ key \in DOMAIN in_use) =>
               /\ DOMAIN in_use' = DOMAIN in_use
               /\ in_use'[key] = in_use[key] + 1
               /\ \A k \in DOMAIN in_use \ {key} : in_use'[k] = in_use[k]
               /\ UNCHANGED <<lru_map, lru_list>>]_vars

C4_Witness ==
    \E key \in DOMAIN in_use :
        in_use[key] = 2 /\ result = "obj" /\ lru_map # {}

\* C5: Return takes exactly one off the refcount; the object moves from
\* in_use to the front of the LRU exactly when the refcount reaches zero.
C5_Return ==
    [][\A key \in KEYS :
         (Return(key) /\ key \in DOMAIN in_use) =>
            IF in_use[key] = 1
            THEN /\ key \notin DOMAIN in_use'
                 /\ key \in lru_map'
                 /\ lru_list' # << >> /\ lru_list'[1] = key
            ELSE /\ key \in DOMAIN in_use'
                 /\ in_use'[key] = in_use[key] - 1
                 /\ key \notin lru_map'
                 /\ UNCHANGED <<lru_map, lru_list>>]_vars

C5_Witness ==
    /\ result = "returned"
    /\ lru_list # << >>
    /\ \E key \in DOMAIN in_use : in_use[key] = 1

\* C6: Put of an object whose URN is already in in_use or in the LRU fails
\* with a programmer error and leaves both maps unchanged.
C6_DoublePut ==
    [][\A key \in KEYS, s \in BOOLEAN, d \in BOOLEAN :
         (Put(key, s, d) /\ (key \in DOMAIN in_use \/ key \in lru_map)) =>
            /\ result' \in {PutInUse, PutInCache}
            /\ UNCHANGED <<in_use, lru_map, lru_list>>]_vars

C6_Witness ==
    /\ result \in {PutInUse, PutInCache}
    /\ DOMAIN in_use # {}
    /\ lru_map # {}

\* C7: Flush of the cache with an object in in_use fails with a programmer
\* error, flushes no object and removes none.
C7_FlushInUse ==
    [][(FlushBegin /\ DOMAIN in_use # {}) =>
          /\ result' = FlushInUse
          /\ flush_pc' = "idle"
          /\ UNCHANGED <<in_use, lru_map, lru_list, dirty>>]_vars

C7_Witness ==
    /\ result = FlushInUse
    /\ DOMAIN in_use # {}
    /\ \E key \in lru_map : dirty[key]

\* C8: a Flush called with in_use empty, whose object flushes re-dirty
\* other objects finitely often, returns; on return the LRU is empty and no
\* object that was in it is dirty.
C8_FlushTerminates ==
    /\ (flush_pc = "walk") ~> (flush_pc = "idle")
    /\ [](result = "flushed" =>
            /\ lru_map = {} /\ lru_list = << >>
            /\ \A key \in URNS : ~dirty[key])

C8_Witness == result = "flushed" /\ redirtied > 0 /\ flush_pc = "idle"

----------------------------------------------------------------------------
(* Properties of the scoped acquisition *)

\* The object of the innermost block is returned by this step: its refcount
\* drops by exactly one and at zero it moves from in_use to the LRU.
Returned(key) ==
    IF in_use[key] = 1
    THEN /\ key \notin DOMAIN in_use'
         /\ key \in lru_map'
         /\ lru_list' # << >> /\ lru_list'[1] = key
    ELSE /\ key \in DOMAIN in_use'
         /\ in_use'[key] = in_use[key] - 1
         /\ UNCHANGED <<lru_map, lru_list>>

\* C9 as stated: every exit of a with-block, normal or by an error, returns
\* the block's object to the cache.
C9_ExitReturns ==
    [][\A exc_type \in BOOLEAN :
         __exit__(exc_type) =>
            LET key == scopes[Len(scopes)]
            IN key \in DOMAIN in_use /\ Returned(key)]_vars

\* C9 amended: every exit of a with-block, normal or by an error, returns
\* the block's object to the cache when the object is still in in_use; when
\* it was closed (removed from the cache) inside the block, the exit fails
\* with a programmer error and changes nothing in the cache.
C9_ExitReturnsIfInUse ==
    [][\A exc_type \in BOOLEAN :
         __exit__(exc_type) =>
            LET key == scopes[Len(scopes)]
            IN IF key \in DOMAIN in_use
               THEN Returned(key) /\ result' = "returned"
               ELSE /\ result' = ReturnNotInUse
                    /\ UNCHANGED <<in_use, lru_map, lru_list, dirty>>]_vars

C9_Witness ==
    /\ exc /\ scopes = << >>
    /\ result = "returned"
    /\ lru_list # << >>
    /\ DOMAIN in_use = {}

----------------------------------------------------------------------------
(* Properties of the map *)

Overlap(r1, r2) ==
    r1.map_offset < map_end(r2) /\ r2.map_offset < map_end(r1)

\* C10: the intervals of the tree are pairwise non-overlapping and each has
\* length at least 1.
C10_NonOverlapping ==
    /\ \A r1 \in tree : \A r2 \in tree \ {r1} : ~Overlap(r1, r2)
    /\ \A r \in tree : r.length >= 1

\* r1 ends exactly where r2 starts, both point to the same target with the
\* same translation.
AdjacentSame(r1, r2) ==
    /\ map_end(r1) = r2.map_offset
    /\ r1.target_id = r2.target_id
    /\ r1.target_offset - r1.map_offset = r2.target_offset - r2.map_offset

\* C11: the tree never holds two adjacent intervals that point to the same
\* target with the same translation.
C11_AdjacentMerged ==
    \A r1 \in tree : \A r2 \in tree : ~AdjacentSame(r1, r2)

\* The arguments of the AddRange calls the callers of a map make.
MapCalls ==
    testAddRange
        \cup ((0..MaxOffset) \X (0..MaxOffset) \X (0..MaxLength) \X TARGETS)

\* The range AddRange builds from the arguments of a call.
NewRange(call) == Range(call[1], call[2], call[3], TargetId(call[4]))

\* r1 and r2 overlap or touch.
Touch(r1, r2) ==
    r1.map_offset <= map_end(r2) /\ r2.map_offset <= map_end(r1)

\* C12: a range added to a map holding one range it overlaps or touches,
\* with the same target and the same translation, leaves a single range
\* covering their union, whichever of the two was added first.
C12_UnionAnyOrder ==
    [][\A call \in MapCalls :
         (/\ AddRange(call[1], call[2], call[3], call[4])
          /\ call[3] >= 1
          /\ \E r \in tree :
                /\ tree = {r}
                /\ Mergeable(NewRange(call), r)
                /\ Touch(NewRange(call), r))
         => \E r \in tree : tree' = {Merge(NewRange(call), r)}]_vars

\* The parts of the range old that lie outside the range new.
OutsideParts(old, new) ==
    (IF old.map_offset < new.map_offset
     THEN {[old EXCEPT !.length = new.map_offset - old.map_offset]}
     ELSE {})
    \cup
    (IF map_end(old) > map_end(new)
     THEN {Range(map_end(new),
                 target_offset_at_map_offset(old, map_end(new)),
                 map_end(old) - map_end(new), old.target_id)}
     ELSE {})

\* C13: a range added to a map holding one range that it overlaps and
\* cannot be merged with is kept whole, and of the older range only the
\* parts outside the new range are kept.
C13_Overwrite ==
    [][\A call \in MapCalls :
         (/\ AddRange(call[1], call[2], call[3], call[4])
          /\ call[3] >= 1
          /\ \E old \in tree :
                /\ tree = {old}
                /\ ~Mergeable(NewRange(call), old)
                /\ Overlap(NewRange(call), old))
         => \E old \in tree :
               tree' = {NewRange(call)} \cup OutsideParts(old, NewRange(call))
       ]_vars

\* C14: a range added to a map all of whose intervals lie inside it leaves
\* that range alone in the tree; added to the ranges of lengths 50/10/40,
\* (0,0,100,b) leaves one range of length 100 with target_id 1.
C14_Envelop ==
    [][\A call \in MapCalls :
         /\ (/\ AddRange(call[1], call[2], call[3], call[4])
             /\ tree # {}
             /\ \A iv \in tree :
                   /\ call[1] <= iv.map_offset
                   /\ map_end(iv) <= call[1] + call[3])
            => tree' = {NewRange(call)} /\ map_result' = "ok"
         /\ (/\ AddRange(call[1], call[2], call[3], call[4])
             /\ call = <<0, 0, 100, "b">>
             /\ targets = <<"a", "b">>
             /\ tree = {Range(0, 0, 50, 0), Range(50, 0, 10, 1),
                        Range(60, 60, 40, 0)})
            => tree' = {Range(0, 0, 100, 1)}]_vars

C14_Witness ==
    /\ tree = {Range(0, 0, 100, 1)}
    /\ targets = <<"a", "b">>
    /\ map_result = "ok"

----------------------------------------------------------------------------
(* Properties of reading and writing through the map *)

\* The lengths the callers read.
ReadLengths == (0..MaxRead) \cup {2, 4}

\* The stream of the target of the interval iv.
TargetOf(iv) == targets[iv.target_id + 1]

\* The target of iv can be opened and holds every byte iv maps.
Holds(iv) ==
    /\ TargetOf(iv) \in DOMAIN streams
    /\ iv.target_offset >= 0
    /\ iv.target_offset + iv.length <= Len(streams[TargetOf(iv)])

\* The byte of the target of iv the logical offset is mapped to.
MappedByte(iv, offset) ==
    streams[TargetOf(iv)][target_offset_at_map_offset(iv, offset) + 1]

\* The largest map_end of the intervals ivs.
LastEnd(ivs) ==
    CHOOSE e \in {map_end(iv) : iv \in ivs} : \A iv \in ivs : map_end(iv) <= e

\* The intervals a Read of length bytes walks.
Walked(length) == TreeOverlap(tree, readptr, readptr + length)

\* The three ranges of the canonical test.
CanonicalTree ==
    {Range(0, 26, 26, 0), Range(50, 52, 2, 0), Range(52, 2, 24, 0)}

\* The three writes of setUp lead to the three ranges.
CanonicalWrites ==
    /\ (tree = {} /\ targets = << >> /\ streams = << >> /\ readptr = 50
          /\ Write(XX_position))
        => tree' = {Range(50, 0, 26, 0)}
    /\ (tree = {Range(50, 0, 26, 0)} /\ readptr = 0
          /\ streams[DataURN] = XX_position /\ Write(OO_position))
        => tree' = {Range(0, 26, 26, 0), Range(50, 0, 26, 0)}
    /\ (tree = {Range(0, 26, 26, 0), Range(50, 0, 26, 0)} /\ readptr = 50
          /\ streams[DataURN] = XX_position \o OO_position /\ Write(Fifty))
        => tree' = CanonicalTree

\* On the canonical map, seek(48); read(4) returns two zero bytes, then the
\* characters 5 and 0.
CanonicalRead ==
    (/\ tree = CanonicalTree
     /\ streams[DataURN] = XX_position \o OO_position \o Fifty
     /\ readptr = 48)
    => ReadEffect(4).result = <<NUL, NUL, "5", "0">>

AfterFirstWrite(r) ==
    /\ tree = {r}
    /\ targets = <<DataURN>>
    /\ r.target_id = 0 /\ r.target_offset = 0
    /\ readptr = map_end(r)
    /\ Len(streams[DataURN]) = r.length

\* C16: a Write that follows, with no seek in between, the first Write on a
\* new map merges its range with the first one: the map holds one range,
\* whose length is the number of bytes written in all.
C16_ConsecutiveWrites ==
    [][\A data \in DATA : \A r \in tree :
         (AfterFirstWrite(r) /\ Write(data)) =>
            /\ tree' = {[r EXCEPT !.length = r.length + Len(data)]}
            /\ Len(streams'[DataURN]) = r.length + Len(data)
            /\ map_result' = "ok"]_vars

C16_Witness ==
    /\ tree = {Range(0, 0, 3, 0)}
    /\ DataURN \in DOMAIN streams
    /\ streams[DataURN] = <<"x", "y", "z">>
    /\ readptr = 3

\* C17: WriteStream from a source of n bytes into a new map leaves exactly
\* one range, which maps the logical offsets [0, n) onto the offsets of the
\* backing stream that hold the bytes of the source.
C17_WriteStream ==
    [][\A source \in DATA :
         (/\ tree = {} /\ targets = << >> /\ streams = << >>
          /\ Len(source) >= 1
          /\ WriteStream(source))
         => \E r \in tree' :
               /\ tree' = {r}
               /\ r.map_offset = 0 /\ r.length = Len(source)
               /\ r.target_offset + r.length <= Len(streams'[DataURN])
               /\ \A i \in 1..Len(source) :
                     streams'[DataURN][r.target_offset + i] = source[i]]_vars

\* The target of iv cannot be opened.
Fails(iv) == TargetOf(iv) \notin DOMAIN streams

\* The largest target offset a range of the tree maps, plus one.
TargetSpan ==
    LET ends == {iv.target_offset + iv.length : iv \in tree}
    IN IF ends = {} THEN 0
       ELSE CHOOSE e \in ends : \A x \in ends : x <= e

\* The streams of the resolver, and for every target that cannot be opened
\* a stream of zero bytes.
ZeroFilled ==
    [target \in DOMAIN streams \cup {TargetOf(iv) : iv \in tree} |->
        IF target \in DOMAIN streams THEN streams[target]
        ELSE Zeros(TargetSpan)]

\* C18: a Read that walks an interval whose target cannot be opened does not
\* fail: it returns what it would return if that target were a stream of
\* zero bytes, that is zero bytes for the part of the interval in the
\* request, followed by what the following intervals give; the read pointer
\* moves as far.
C18_UnreachableTarget ==
    \A length \in ReadLengths :
       (\E iv \in Walked(length) : Fails(iv)) =>
          ReadEffect(length) = ReadEffectOn(length, ZeroFilled)

C18_Witness ==
    /\ \E iv \in tree : Fails(iv)
    /\ \E iv \in tree : Holds(iv)
    /\ Len(read_result) = 3
    /\ read_result[1] = NUL /\ read_result[2] = NUL
    /\ read_result[3] = "A"

\* The ranges and the targets LoadFromURN reads from the members map and
\* idx.
StoredTree(payload) == ReadRanges(payload, {})
StoredTargets(string) == splitlines(string, << >>, "")

----------------------------------------------------------------------------
(* Properties of the image stream *)

\* The first n bytes written, or all of them when fewer were written.
FirstWritten(n) == SubSeq(written, 1, Min(n, Len(written)))

\* C20: after any sequence of Writes on a new image and a Flush, the
\* reopened image has the size of all the bytes written, and a Read of k
\* bytes from offset 0 returns the first min(k, size) bytes written,
\* whatever the chunk size and the chunks per segment. In the test, 100
\* writes of 15 bytes with chunk_size 10 and chunks_per_segment 3 give the
\* size 1500 and a Read(100) that returns the first 100 bytes.
C20_ImageRoundTrip ==
    /\ [](image_pc = "reopened" =>
            /\ image.size = Len(written)
            /\ \A k \in (0..MaxImageRead) \cup {TestRead} :
                 image.readptr = 0 =>
                    LET r == ImageReadEffect(image, volume, k)
                    IN ~r.raised /\ r.result = FirstWritten(k))
    /\ []((image_pc = "reopened" /\ TestImage(image)) =>
            /\ image.size = TestSize
            /\ image.readptr = 0 =>
                 ImageReadEffect(image, volume, TestRead).result
                    = HelloWorld(0) \o HelloWorld(1) \o HelloWorld(2)
                      \o HelloWorld(3) \o HelloWorld(4) \o HelloWorld(5)
                      \o SubSeq(HelloWorld(6), 1, 10))

C20_Witness ==
    /\ image_pc = "reopened"
    /\ TestImage(image)
    /\ image.size = TestSize
    /\ image.readptr = TestRead
    /\ Len(image_result) = 100
    /\ SubSeq(image_result, 91, 100) = SubSeq(HelloWorld(6), 1, 10)

\* The chunks the index of a stored bevy records, decompressed.
BevyChunks(bevy_id) ==
    LET index == _parse_bevy_index(volume.indexes[bevy_id])
    IN [i \in 1..Len(index) |->
          decompress(image.compression,
                     StreamRead(volume.bevies[bevy_id], index[i][1],
                                index[i][2]))]

\* The chunks of the stored bevies 0 .. n - 1, in order.
RECURSIVE ChunksUpTo(_)
ChunksUpTo(n) ==
    IF n = 0 THEN << >> ELSE ChunksUpTo(n - 1) \o BevyChunks(n - 1)

\* The stored bevies are numbered from 0 with no gap, each with its index.
BeviesNumbered ==
    /\ DOMAIN volume.bevies = 0..(Cardinality(DOMAIN volume.bevies) - 1)
    /\ DOMAIN volume.indexes = DOMAIN volume.bevies

\* The chunks recorded for the image.
RecordedChunks == ChunksUpTo(Cardinality(DOMAIN volume.bevies))

\* The image has been flushed, or was never written.
Flushed == ~image.dirty

Metadata ==
    <<[type |-> AFF4_IMAGE_TYPE,
       chunk_size |-> image.chunk_size,
       chunks_per_segment |-> image.chunks_per_segment,
       size |-> image.size,
       compression |-> image.compression]>>

\* The chunks the image holds for the bevy it is filling, decompressed.
HeldChunks ==
    [i \in 1..Len(image.bevy) |->
        decompress(image.compression, image.bevy[i])]

\* C23: the Flush of a dirty image adds the buffer as the tail chunk after
\* the chunks held for the tail bevy, stores that bevy after the bevies
\* already stored, writes the metadata (type, chunk size, chunks per
\* segment, size, compression) and leaves the image not dirty, with no chunk
\* held back; the Flush of an image that is not dirty changes nothing in the
\* volume or the image.
C23_Flush ==
    [][ImageFlush =>
         IF image.dirty
         THEN /\ RecordedChunks' =
                   RecordedChunks \o HeldChunks \o <<image.buffer>>
              /\ volume'.meta = Metadata
              /\ image'.bevy = << >>
              /\ ~image'.dirty
         ELSE UNCHANGED <<image, volume>>]_vars

C23_Witness ==
    /\ image_pc = "new"
    /\ ~image.dirty
    /\ volume.meta # << >>
    /\ volume.meta[1].size = 3
    /\ volume.meta[1].chunk_size = 2
    /\ RecordedChunks = <<SubSeq(written, 1, 2), SubSeq(written, 3, 3)>>

\* A new image of the geometry and compression of img, and its empty
\* volume.
NewLike(img) ==
    [ImageLoadFromURN(<< >>) EXCEPT
       !.chunk_size = img.chunk_size,
       !.chunks_per_segment = img.chunks_per_segment,
       !.compression = img.compression]

NoVolume == [bevies |-> << >>, indexes |-> << >>, meta |-> << >>,
                 members |-> << >>]

\* What an image of the geometry of img stores when data is given to it by
\* a Write and it is flushed.
WriteFilled(img, data) ==
    LET st == ImageWriteEffect(NewLike(img), NoVolume, data)
    IN ImageFlushEffect(st.image, st.volume).volume

\* What Read(k) at offset p returns from the image stored as vol, opened in
\* a fresh resolver.
ReadBack(vol, p, k) ==
    ImageReadEffect([ImageLoadFromURN(vol.meta) EXCEPT !.readptr = p],
                    vol, k)

\* C24: an image filled by WriteStream from a source reads back, in a fresh
\* resolver, with the same size and, for every offset and length, the same
\* bytes as an image of the same geometry filled by a Write of the same data
\* and flushed; both hold the bytes of the source. The image of the test
\* filled from the source of setUp has the size and returns the bytes that
\* testOpenImageByURN expects of the image filled by the Writes.
C24_WriteStreamAsWrite ==
    [][/\ \A source \in IMAGE_SOURCES :
            (written = << >> /\ ~TestImage(image)
               /\ ImageWriteStream(source)) =>
               LET by_write == WriteFilled(image, source)
               IN /\ ImageLoadFromURN(volume'.meta).size
                       = ImageLoadFromURN(by_write.meta).size
                  /\ ImageLoadFromURN(volume'.meta).size = Len(source)
                  /\ \A p \in 0..MaxImage :
                       \A k \in (0..MaxImageRead) \cup {TestRead} :
                          /\ ReadBack(volume', p, k) = ReadBack(by_write, p, k)
                          /\ ~ReadBack(volume', p, k).raised
                  /\ ReadBack(volume', 0, Len(source)).result = source
       /\ (written = << >> /\ TestImage(image)
             /\ ImageWriteStream(TestSource)) =>
             /\ ImageLoadFromURN(volume'.meta).size = TestSize
             /\ ReadBack(volume', 0, TestRead)
                  = [raised |-> FALSE,
                     result |-> SubSeq(TestSource, 1, TestRead)]]_vars

C24_Witness ==
    /\ image_pc = "reopened"
    /\ TestImage(image)
    /\ written = TestSource
    /\ Cardinality(DOMAIN volume.bevies) = 51
    /\ volume.bevies[50] = << >>
    /\ image.readptr = TestRead
    /\ image_result = SubSeq(TestSource, 1, TestRead)

\* The bytes new are the bytes old with data written at position p: data
\* stands at [p, p + Len(data)), the file is as long as the longer of the old
\* file and p + Len(data), and every other byte of the old file is as it
\* was.
WrittenAt(old, p, data, new) ==
    /\ Len(new) = Max(Len(old), p + Len(data))
    /\ \A i \in 1..Len(new) :
          IF i > p /\ i <= p + Len(data) THEN new[i] = data[i - p]
          ELSE i <= Len(old) => new[i] = old[i]

TEST_DATA == {HelloWorldText, CruelWorldText, ArmsAndLegsText}

C26_TruncateOnce ==
    [][/\ (~file_stream.open /\ FileOpen) =>
            IF write_mode = "truncate"
            THEN /\ disk'.bytes = << >>
                 /\ write_mode' = "append"
                 /\ truncated' = truncated + 1
            ELSE /\ disk'.bytes = disk.bytes
                 /\ write_mode' = write_mode
                 /\ truncated' = truncated
       /\ write_mode # "truncate" => write_mode' # "truncate"
       /\ truncated' <= 1
       /\ ~(~file_stream.open /\ FileOpen) => truncated' = truncated]_vars

C26_Witness ==
    /\ truncated = 1
    /\ file_stream.open
    /\ file_stream.flags = "a+b"
    /\ write_mode = "append"
    /\ disk.bytes = <<"a", "b", "c">>

\* C27: the bytes written to one member over several sessions, a write and
\* then appends at the end of the same segment, are all present and in write
\* order when the volume was flushed and a fresh resolver reads the member.
C27_SessionsConcatenate ==
    zip_pc = "reopened" /\ member_data # << >> => zip_result = member_data

\* The run of ZipTest: both strings, read back as their concatenation.
C27_TestRun ==
    /\ zip_pc = "reopened"
    /\ member_data = data1 \o data2
    /\ zip_result = data1 \o data2

\* The cells a member of the content data takes in the backing file under
\* the compression method.
Payload(data, compression_method) ==
    IF compression_method = ZIP_DEFLATE THEN deflate(data) ELSE Cells(data)

\* C28: StreamAddMember leaves every byte before the local header unchanged
\* and leaves, at the offset where it wrote the header with placeholder
\* sizes, the header with the final CRC32, compressed size and uncompressed
\* size, followed by the payload and by nothing else. The step is the flush
\* of one dirty segment, which adds the segment as a member.
C28_HeaderRewrittenInPlace ==
    [][\A name \in SEGMENTS :
          SegmentTrim(name) /\ segments[name].dirty =>
             LET header_offset == Len(disk.bytes)
                 data == segments[name].bytes
                 compression_method == segments[name].compression_method
                 c_data == Payload(data, compression_method)
                 after == disk'.bytes
             IN /\ Len(after) = header_offset + 3 + Len(c_data)
                /\ SubSeq(after, 1, header_offset) = disk.bytes
                /\ after[header_offset + 1] =
                      <<"ZipFileHeader", crc32(data, 0), -1, -1, 1,
                        compression_method, 1>>
                /\ after[header_offset + 2] = <<"filename", name>>
                /\ after[header_offset + 3] =
                      <<"Zip64FileHeaderExtensibleField", Len(data),
                        Len(c_data), header_offset>>
                /\ SubSeq(after, header_offset + 4, Len(after)) = c_data]_vars

\* C29: a Flush of a dirty volume leaves every cached segment of the volume
\* flushed (none is dirty), each of them written in this Flush before
\* information.turtle, information.turtle before the central directory,
\* no cell of a member after the start of the central directory, which ends
\* the file, and the volume not dirty.
C29_FlushOrder ==
    [][ZipFlush /\ zip.dirty =>
          LET before == Len(disk.bytes)
              after == disk'.bytes
              turtle == zip'.members[urn_from_member_name(TurtleName)]
              end_cd == after[Len(after) - 3]
              offset_of_cd == end_cd[5]
          IN /\ ~zip'.dirty
             /\ \A name \in SEGMENTS :
                   segments[name].cached => ~segments'[name].dirty
             /\ segments[SegmentName].cached /\ segments[SegmentName].dirty
                   => LET member ==
                            zip'.members[urn_from_member_name(SegmentName)]
                      IN /\ before <= member.local_header_offset
                         /\ member.local_header_offset
                              < turtle.local_header_offset
             /\ before <= turtle.local_header_offset
             /\ after[Len(after)] = <<"urn", VolumeURN>>
             /\ end_cd[1] = "Zip64EndCD"
             /\ turtle.local_header_offset < offset_of_cd
             /\ \A j \in (offset_of_cd + 1)..Len(after) :
                   after[j][1] \notin {"ZipFileHeader", "D", "DEFLATE"}]_vars

\* The slot that holds the values in their order: none for no value, the
\* value itself for one, a list for more.
SlotOf(values) ==
    IF values = << >> THEN NoValue
    ELSE IF Len(values) = 1 THEN Single(values[1])
    ELSE List(values)

\* C30: under every subject and attribute the store holds what the calls
\* since the last Set gave, in the order of the calls: nothing, the single
\* value (a Set replaces whatever was stored, the first Add stores the value
\* itself), or from the second insertion on the list of the values; and a
\* Get returns just that.
C30_SetAddGet ==
    /\ \A subject \in SUBJECTS, attribute \in ATTRIBUTES :
          Slot(store, SerializeToString(subject), attribute)
             = SlotOf(Inserted(SerializeToString(subject), attribute))
    /\ store_result # << >> /\ store_result[1] = "Get" =>
          store_result[4]
             = SlotOf(Inserted(store_result[2], store_result[3]))

\* A Get returned the list of two values that a Set and an Add on the URN of
\* the tests built, and a Set replaced the list under another spelling of
\* another subject.
C30_Witness ==
    /\ store_result # << >> /\ store_result[1] = "Get"
    /\ store_result[4] = List(<<"foo", "bar">>)
    /\ store_result[2] = << >>
    /\ Slot(store, <<"a">>, "type") = Single("bar")
    /\ \E key \in DOMAIN store : store[key].kind = "list"

\* Where the tree t maps the logical offset: the target ids and target
\* offsets of the intervals that contain it.
MappedTo(t, offset) ==
    {<<iv.target_id, target_offset_at_map_offset(iv, offset)>> :
        iv \in TreeAt(t, offset)}

\* The logical offsets a tree of the callers can map.
OFFSETS == 0..(2 * (MaxOffset + MaxLength) + 2)

\* C33: an AddRange that returns maps every logical offset of its range to
\* its target at its translation, and leaves every other offset mapped, or
\* unmapped, as it was; so after any sequence of calls every offset is
\* mapped as the most recent call covering it said, and unmapped when no
\* call covered it.
C33_LastWriterWins ==
    [][\A map_offset \in 0..MaxOffset, target_offset \in 0..MaxOffset,
          length \in 1..MaxLength, target \in TARGETS :
          AddRange(map_offset, target_offset, length, target)
          /\ map_result' = "ok"
          => \A offset \in OFFSETS :
                MappedTo(tree', offset) =
                   IF map_offset <= offset /\ offset < map_offset + length
                   THEN {<<TargetId(target),
                           target_offset + offset - map_offset>>}
                   ELSE MappedTo(tree, offset)]_vars

\* The invariants of the tree: no two intervals overlap, none is shorter
\* than one byte, and no two adjacent ones have one target and translation.
TreeInvariants(t) ==
    /\ \A r1 \in t : \A r2 \in t \ {r1} : ~Overlap(r1, r2)
    /\ \A r \in t : r.length >= 1
    /\ \A r1 \in t : \A r2 \in t : ~AdjacentSame(r1, r2)

\* C34: on a tree that satisfies the invariants an AddRange of at least one
\* byte returns without raising, wherever the new range lies.
C34_AddRangeNeverRaises ==
    [][\A map_offset \in 0..MaxOffset, target_offset \in 0..MaxOffset,
          length \in 1..MaxLength, target \in TARGETS :
          AddRange(map_offset, target_offset, length, target)
          /\ TreeInvariants(tree)
          => map_result' = "ok"]_vars

\* The ranges AddRange builds from the arguments of the callers and of
\* testAddRange.
CALL_RANGES ==
    LET ids == 0..(Cardinality(TARGETS) - 1)
    IN {Range(map_offset, target_offset, length, target_id) :
           map_offset \in 0..MaxOffset, target_offset \in 0..MaxOffset,
           length \in 1..MaxLength, target_id \in ids}
       \cup {Range(c[1], c[2], c[3], target_id) :
                c \in testAddRange, target_id \in ids}

\* target_offset - map_offset of a range.
Translation(r) == r.target_offset - r.map_offset

\* The result the documentation of Merge gives for self.Merge(other).
MergeAsClaimed(self, other) ==
    LET lower == IF self.map_offset <= other.map_offset THEN self ELSE other
    IN /\ Mergeable(self, other)
            <=> /\ self.target_id = other.target_id
                /\ Translation(self) = Translation(other)
       /\ Mergeable(self, other) =>
            LET merged == Merge(self, other)
            IN /\ merged.map_offset = Min(self.map_offset, other.map_offset)
               /\ map_end(merged) = Max(map_end(self), map_end(other))
               /\ merged.target_id = self.target_id
               /\ Translation(merged) = Translation(lower)

\* C35: Merge of a range of a caller with an interval of the tree, either
\* way round, succeeds exactly when the two have one target_id and one
\* translation, and then spans from the smaller map_offset to the larger
\* map_end with the translation of the range that starts lower.
C35_Merge ==
    \A iv \in tree : \A r \in CALL_RANGES :
       MergeAsClaimed(r, iv) /\ MergeAsClaimed(iv, r)

\* A tree whose one interval AddRange merged from a new range and an older
\* interval that starts lower.
C35_Witness ==
    /\ map_result = "ok"
    /\ \E iv \in tree :
          /\ tree = {iv}
          /\ iv \notin CALL_RANGES
          /\ \E r \in CALL_RANGES :
                /\ r.map_offset > iv.map_offset
                /\ Mergeable(r, iv)
                /\ Merge(r, iv) = iv

\* C36: a map Read of any length, from any map and read pointer, moves the
\* read pointer by the number of bytes it returns and returns at most the
\* requested number of bytes.
C36_ReadAdvances ==
    \A length \in 0..MaxRead :
       LET r == ReadEffect(length)
       IN /\ r.readptr - readptr = Len(r.result)
          /\ Len(r.result) <= length

\* The chunks flushed so far: those of the stored bevies, then those held
\* for the bevy being filled.
FlushedChunks == RecordedChunks \o HeldChunks

\* The number of the write of aff4image_test.setUp that comes next.
NextHello == Min(Len(written) \div Len(HelloWorld(0)), TestWrites - 1)

\* C37 as stated: when a Write returns, the buffer holds fewer than
\* chunk_size bytes.
C37_BufferBelowChunkSize ==
    [][\A data \in IMAGE_DATA :
          ImageWrite(data) => Len(image'.buffer) < image.chunk_size]_vars

\* C37: when a Write returns, the buffer holds at most chunk_size bytes and,
\* unless nothing is buffered, at least one: chunk_size-byte chunks are
\* sliced off the front of the buffer and flushed for as long as more than
\* chunk_size bytes remain, and what remains is the new buffer.
C37_BufferAtMostChunkSize ==
    [][\A data \in IMAGE_DATA \cup {HelloWorld(NextHello)} :
          written' = written \o data /\ ImageWrite(data) =>
             LET total == image.buffer \o data
                 size  == image.chunk_size
                 n     == IF total = << >> THEN 0
                          ELSE (Len(total) - 1) \div size
             IN /\ Len(image'.buffer) <= size
                /\ total # << >> => Len(image'.buffer) >= 1
                /\ image'.buffer = SubSeq(total, n * size + 1, Len(total))
                /\ FlushedChunks' =
                      FlushedChunks \o
                      [i \in 1..n |-> SubSeq(total, (i - 1) * size + 1,
                                             i * size)]]_vars

\* A Write has flushed one chunk and returned with a whole chunk in the
\* buffer.
C37_Witness ==
    /\ image_pc = "new"
    /\ image.dirty
    /\ volume.meta = << >>
    /\ image.chunk_size = 2
    /\ Len(written) = 4
    /\ Len(image.buffer) = image.chunk_size
    /\ FlushedChunks = <<SubSeq(written, 1, 2)>>

\* C38: for any interleaving of Write and Flush, once the image is flushed
\* the stored chunks hold each written byte once, in call order, and the
\* image opened from the volume reads back the bytes written.
C38_StoredOnce ==
    (image_pc = "new" /\ ~image.dirty) =>
       /\ JoinChunks(RecordedChunks) = written
       /\ LET r == ImageReadEffect(ImageLoadFromURN(volume.meta), volume,
                                   Len(written))
          IN ~r.raised /\ r.result = written

\* C39: a _FlushBevy of a non-empty bevy adds to the volume the index
\* segment of the bevy and then its payload segment, both under the current
\* bevy number, empties the chunk counter, the index and the accumulator
\* and adds one to the bevy number; the segments the Writes and Flushes of
\* an image have emitted are index 0, bevy 0, index 1, bevy 1, ... with no
\* number left out.
C39_FlushBevy ==
    /\ image.bevy # << >> =>
         LET st == _FlushBevy([image |-> image, volume |-> volume])
         IN /\ st.volume.members =
                  volume.members \o <<IndexMember(image.bevy_number),
                                      BevyMember(image.bevy_number)>>
            /\ st.image.chunk_count_in_bevy = 0
            /\ st.image.bevy_index = << >>
            /\ st.image.bevy = << >>
            /\ st.image.bevy_length = 0
            /\ st.image.bevy_number = image.bevy_number + 1
    /\ image_pc = "new" =>
         /\ Len(volume.members) = 2 * image.bevy_number
         /\ \A n \in 0..(image.bevy_number - 1) :
              /\ volume.members[2 * n + 1] = IndexMember(n)
              /\ volume.members[2 * n + 2] = BevyMember(n)

\* Two bevies have been flushed, one by a Write that filled it.
C39_Witness ==
    /\ image_pc = "new"
    /\ image.dirty
    /\ image.bevy # << >>
    /\ image.bevy_number = 2
    /\ volume.members = <<IndexMember(0), BevyMember(0),
                          IndexMember(1), BevyMember(1)>>

\* C40: a WriteStream from a source of n bytes returns having stored
\* ceil(n / (chunk_size * chunks_per_segment)) bevies, none of them empty.
C40_BevyCount ==
    [][\A source \in IMAGE_SOURCES \cup {TestSource} :
          written' = source /\ ImageWriteStream(source) =>
             LET per == image.chunk_size * image.chunks_per_segment
             IN /\ Cardinality(DOMAIN volume'.bevies)
                      = (Len(source) + per - 1) \div per
                /\ \A bevy_id \in DOMAIN volume'.bevies :
                      volume'.bevies[bevy_id] # << >>]_vars

\* The URN matches a pattern of a symbolic stream: Zero, UnknownData,
\* UnreadableData, or SymbolicStream followed by two hex digits.
SymbolicPattern(urn) ==
    \/ urn \in {<<"http", Base, name>> :
                   name \in {"Zero", "UnknownData", "UnreadableData"}}
    \/ /\ Len(urn) = 5
       /\ SubSeq(urn, 1, 3) = <<"http", Base, "SymbolicStream">>
       /\ urn[4] \in HexDigits /\ urn[5] \in HexDigits

\* The types stored for the URN, in the order they were given.
StoredTypes(urn) == StoreGetEffect(store, urn, AFF4_TYPE).values

\* The priority of the factory: symbolic stream, then the first stored
\* type that is registered, then the scheme, then the not-found error.
Priority(urn) ==
    IF SymbolicPattern(urn)
    THEN Object(IF urn[3] \in {"UnknownData", "UnreadableData"}
                THEN "RepeatedStringStream" ELSE "RepeatedStream")
    ELSE IF \E i \in DOMAIN StoredTypes(urn) :
               StoredTypes(urn)[i] \in DOMAIN AFF4_TYPE_MAP
    THEN LET first == CHOOSE i \in DOMAIN StoredTypes(urn) :
                         /\ StoredTypes(urn)[i] \in DOMAIN AFF4_TYPE_MAP
                         /\ \A j \in 1..(i - 1) :
                               StoredTypes(urn)[j] \notin DOMAIN AFF4_TYPE_MAP
         IN Object(AFF4_TYPE_MAP[StoredTypes(urn)[first]])
    ELSE IF Head(urn) \in DOMAIN AFF4_TYPE_MAP
    THEN Object(AFF4_TYPE_MAP[Head(urn)])
    ELSE Raised("IOError")

\* C31: AFF4FactoryOpen of a URN the resolver does not hold in its cache
\* gives a symbolic stream when the URN matches a symbolic-stream pattern,
\* otherwise an object of the handler of the first stored type that is
\* registered, otherwise one of the handler of the scheme of the URN, and
\* raises IOError when there is none.
C31_FactoryPriority ==
    [][\A urn \in FACTORY_URNS :
          FactoryOpen(urn) /\ SerializeToString(urn) \notin DOMAIN ObjectCache
          => store_result'[3] = Priority(urn)]_vars

\* A pass of the loop of a copy finds the flag set and data in the source.
ReportsWhileAborting ==
    /\ copy.pc = "copying"
    /\ copy.source # << >>
    /\ aff4_abort_signaled
    /\ \E now \in BOOLEAN : StreamAddMemberLoop(now)

\* C32 as stated: once the flag is set, the next progress report of a
\* running copy raises and the copy is aborted.
C32_AbortRaises ==
    [][ReportsWhileAborting => copy'.pc = "aborted"]_vars

\* C32: once the flag is set, the next progress report of a running copy
\* that reports to a ProgressContext raises and the copy is aborted: the
\* data of the pass is not written to the backing store (unless the copy
\* deflates, which writes before it reports), the header keeps the sizes
\* 0 and the member is not entered in the volume. A copy that reports to
\* the EmptyProgressContext, the one StreamAddMember takes when it is given
\* none, goes on; and no copy is aborted while the flag is not set.
C32_AbortRaisesOnProgressContext ==
    [][/\ ReportsWhileAborting =>
            IF copy.progress = "ProgressContext"
            THEN /\ copy'.pc = "aborted"
                 /\ ~copy'.member
                 /\ Head(copy'.out) = MemberHeader(0, 0)
                 /\ copy.compression_method = ZIP_STORED
                       => copy'.out = copy.out
            ELSE copy'.pc = "copying"
        /\ copy'.pc = "aborted" => aff4_abort_signaled]_vars

\* A copy that reported to a ProgressContext was aborted after it had
\* written data.
C32_Witness ==
    /\ copy.pc = "aborted"
    /\ copy.progress = "ProgressContext"
    /\ aff4_abort_signaled
    /\ Len(copy.out) > 1
    /\ copy.source # << >>
    /\ ~copy.member

====
